---- MODULE Spec2Model ----
(***************************************************************************)
(* A model of src/parsers/ema_parser.py: EmaPageParser, the block parser   *)
(* that walks the DOM of a page's main content and returns typed blocks    *)
(* and links.                                                              *)
(*                                                                         *)
(* Representation.                                                         *)
(*  - A string is a sequence of atoms: a word, or a white-space character  *)
(*    (" " or "\n").  An href is tokenised so that the prefixes the code   *)
(*    tests ("#", "javascript:") are atoms of their own.                   *)
(*  - An Optional value is a sequence of length 0 (None) or 1 (the value), *)
(*    and so is the result of find() and an attribute that may be absent.  *)
(*  - A DOM element is a record: tag, cls (the class tokens), the          *)
(*    attributes href, datetime, imgsrc (src) and doctype                  *)
(*    (data-ema-document-type), text (the string before the first child),  *)
(*    kids (the child elements) and tail (the string that follows the      *)
(*    element inside its parent).  NavigableString children are the text   *)
(*    and tail fields, so the element children are exactly kids.           *)
(*  - id(element) is the element's path from the document root (the        *)
(*    sequence of child indexes); a node is [p |-> path, e |-> element].   *)
(*  - Every block and link carries one more field than in the code, src:   *)
(*    the path of the element it was made from.  Nothing in the model of   *)
(*    the parser reads it; the properties do.                              *)
(***************************************************************************)
EXTENDS Integers, Sequences, FiniteSets, TLC

VARIABLES dom, links, processed_elements, result, root, consumed, prior, trace

\* two concurrent calls of parse(): the fields of the parser instances and
\* the position and local variables of each call
VARIABLES inst, call

\* a MarkdownConverter and its caller: the list of block dicts the caller
\* holds, the converter's skip_types, and what the last call of convert()
\* gave; skip_arg (the argument of the constructor) and blocks_before (the
\* list when the last call began) are not in the code
VARIABLES md_blocks, skip_types, markdown, skip_arg, blocks_before

mdvars == <<md_blocks, skip_types, markdown, skip_arg, blocks_before>>

vars == <<dom, links, processed_elements, result, root, consumed, prior, trace,
          inst, call, md_blocks, skip_types, markdown, skip_arg, blocks_before>>

(***************************************************************************)
(* Bounds of the model.                                                    *)
(***************************************************************************)
\* the longest list of top-level children of main
MaxTop == 2
\* the interpreter's recursion limit, counted in frames of _parse_children
\* and of the extractors that call it
StackLimit == 6

None == <<>>
Some(v) == <<v>>

\* a local variable: Body with its parameter bound to the value v, which is
\* computed once however often Body uses it
With(v, Body(_)) == Body(v)

(***************************************************************************)
(* Strings.                                                                *)
(***************************************************************************)
IsSpace(c) == c \in {" ", "\n"}

RECURSIVE lstrip(_)
lstrip(s) == IF s = <<>> THEN <<>>
             ELSE IF IsSpace(Head(s)) THEN lstrip(Tail(s)) ELSE s

RECURSIVE rstrip(_)
rstrip(s) == IF s = <<>> THEN <<>>
             ELSE IF IsSpace(s[Len(s)]) THEN rstrip(SubSeq(s, 1, Len(s) - 1)) ELSE s

strip(s) == rstrip(lstrip(s))

\* re.sub(r'\s+', ' ', s)
RECURSIVE collapse_ws(_)
collapse_ws(s) == IF s = <<>> THEN <<>>
                  ELSE IF IsSpace(Head(s)) THEN <<" ">> \o collapse_ws(lstrip(s))
                  ELSE <<Head(s)>> \o collapse_ws(Tail(s))

\* sep.join(parts)
RECURSIVE join(_, _)
join(sep, parts) == IF parts = <<>> THEN <<>>
                    ELSE IF Len(parts) = 1 THEN parts[1]
                    ELSE parts[1] \o sep \o join(sep, Tail(parts))

startswith(s, prefix) == Len(s) >= 1 /\ s[1] = prefix

\* Class tokens are atoms; the str methods the code applies to them are given
\* on the tokens of the pages as <<token, prefix, rest>>, token = prefix + rest.
ClassParts == { <<"bcl-listing--highlight-3-col", "bcl-listing--", "highlight-3-col">>,
                <<"alert-info", "alert-", "info">>,
                <<"alert-dismissible", "alert-", "dismissible">>,
                <<"listing-item--highlight", "listing-item", "--highlight">> }

\* cls.startswith(prefix)
cls_startswith(tok, prefix) ==
    tok = prefix \/ \E t \in ClassParts : t[1] = tok /\ t[2] = prefix

\* sub in cls
cls_contains(tok, sub) ==
    tok = sub \/ \E t \in ClassParts : t[1] = tok /\ (t[2] = sub \/ t[3] = sub)

\* cls.replace(prefix, ''), of a token that starts with the prefix
cls_replace(tok, prefix) ==
    IF tok = prefix THEN ""
    ELSE (CHOOSE t \in ClassParts : t[1] = tok /\ t[2] = prefix)[3]

\* Python truthiness of an Optional[str]
Truthy(o) == o # None /\ o[1] # <<>>

(***************************************************************************)
(* The DOM.                                                                *)
(***************************************************************************)
El(tag, cls, text, kids) ==
    [tag |-> tag, cls |-> cls, href |-> None, datetime |-> None, imgsrc |-> None,
     doctype |-> None, text |-> text, kids |-> kids, tail |-> <<>>]

Node(p, e) == [p |-> p, e |-> e]

Child(n, i) == Node(Append(n.p, i), n.e.kids[i])

\* element.descendants, the Tags only, in document order
RECURSIVE descendants(_)
RECURSIVE descendants_from(_, _)
descendants(n) == descendants_from(n, 1)
descendants_from(n, i) ==
    IF i > Len(n.e.kids) THEN <<>>
    ELSE <<Child(n, i)>> \o descendants(Child(n, i)) \o descendants_from(n, i + 1)

\* the NavigableStrings under an element, in document order
RECURSIVE all_strings(_)
RECURSIVE kids_strings(_, _)
all_strings(e) == <<e.text>> \o kids_strings(e.kids, 1)
kids_strings(ks, i) ==
    IF i > Len(ks) THEN <<>>
    ELSE all_strings(ks[i]) \o <<ks[i].tail>> \o kids_strings(ks, i + 1)

RECURSIVE stripped_nonempty(_)
stripped_nonempty(ss) ==
    IF ss = <<>> THEN <<>>
    ELSE IF strip(Head(ss)) = <<>> THEN stripped_nonempty(Tail(ss))
    ELSE <<strip(Head(ss))>> \o stripped_nonempty(Tail(ss))

\* el.get_text(strip=True), without the separator
bs_get_text_unseparated(e) == join(<<>>, stripped_nonempty(all_strings(e)))

\* el.get_text(separator=' ', strip=True)
bs_get_text(e) == join(<<" ">>, stripped_nonempty(all_strings(e)))

\* EmaPageParser._get_text
get_text(e) == strip(collapse_ws(bs_get_text(e)))

\* the class attribute is a list of tokens; set(element.get('class', []))
ClassSet(e) == {e.cls[i] : i \in DOMAIN e.cls}
HasClass(n, c) == c \in ClassSet(n.e)
HasTag(n, t) == n.e.tag = t
IsLink(n) == n.e.tag = "a" /\ n.e.href # None

IsListingItem(n) ==
    \E c \in ClassSet(n.e) : cls_contains(c, "listing-item") \/ c = "card"

\* the arguments of find()/find_all(): a tag name, class_=, href=True, or
\* the class_ predicate of _parse_listing
ByTag(t)   == [kind |-> "tag", v |-> {t}]
ByTags(ts) == [kind |-> "tag", v |-> ts]
ByClass(c) == [kind |-> "class", v |-> c]
ByHref     == [kind |-> "href", v |-> "a"]
ByListingItem == [kind |-> "listing-item", v |-> ""]
Matches(sel, x) ==
    CASE sel.kind = "tag"   -> \E t \in sel.v : HasTag(x, t)
      [] sel.kind = "class" -> HasClass(x, sel.v)
      [] sel.kind = "href"  -> IsLink(x)
      [] OTHER              -> IsListingItem(x)
\* el.find_all(...), in document order
find_all(n, sel) == SelectSeq(descendants(n), LAMBDA x : Matches(sel, x))
\* el.find(...): a sequence of length 0 (None) or 1
find(n, sel) == LET all == find_all(n, sel)
                    IN IF all = <<>> THEN <<>> ELSE <<all[1]>>
\* a or b, of two find() results
OrElse(a, b) == IF a # <<>> THEN a ELSE b

\* el.find_all(..., recursive=False)
RECURSIVE children_from(_, _)
children_from(n, i) == IF i > Len(n.e.kids) THEN <<>>
                       ELSE <<Child(n, i)>> \o children_from(n, i + 1)
children(n) == children_from(n, 1)

(***************************************************************************)
(* Parser run-state: st = [links, processed, raised, consumed, trace].     *)
(* raised is the exception in flight; consumed (not in the code) records   *)
(* the elements handed to a component extractor, and trace (not in the     *)
(* code) the iterations of the loop of _parse_children in order: the child *)
(* reached, what was done with it, whether it was in the visited set, and  *)
(* the blocks, links and visited set before and after the iteration.       *)
(***************************************************************************)
Link(text, href, src) == [text |-> text, href |-> href, src |-> src]

NewState == [links |-> <<>>, processed |-> {}, raised |-> FALSE, consumed |-> {},
             trace |-> <<>>]

Raise(st) == [st EXCEPT !.raised = TRUE]

\* _extract_link without the test of the href and without the href as the
\* text of an anchor that has none
extract_link_unfiltered(a, st) ==
    IF a.e.href = None THEN st
    ELSE [st EXCEPT !.links = Append(@, Link(get_text(a.e), a.e.href[1], a.p))]

\* _extract_link
extract_link(a, st) ==
    LET href == IF a.e.href = None THEN <<>> ELSE a.e.href[1]
    IN IF href = <<>> \/ startswith(href, "#") \/ startswith(href, "javascript:")
       THEN st
       ELSE With(get_text(a.e), LAMBDA text :
                [st EXCEPT !.links =
                    Append(@, Link(IF text = <<>> THEN href ELSE text, href, a.p))])

RECURSIVE extract_link_each(_, _)
extract_link_each(as, st) ==
    IF as = <<>> THEN st
    ELSE extract_link_each(Tail(as), extract_link(Head(as), st))

\* _extract_links
extract_links(n, st) == extract_link_each(find_all(n, ByHref), st)

\* an extractor's return value: blk is <<>> (None) or <<block>>
Ret(blk, st) == [blk |-> blk, st |-> st]

\* _parse_heading
HeadingLevel(tag) == CASE tag = "h1" -> 1 [] tag = "h2" -> 2 [] tag = "h3" -> 3
                       [] tag = "h4" -> 4 [] tag = "h5" -> 5 [] tag = "h6" -> 6

parse_heading(n, st) ==
    With(get_text(n.e), LAMBDA text :
        IF text = <<>> THEN Ret(<<>>, st)
        ELSE Ret(<<[type |-> "heading", level |-> HeadingLevel(n.e.tag),
                    text |-> text, src |-> n.p]>>,
                 extract_links(n, st)))

\* _parse_paragraph without the return of None for an empty text
parse_paragraph_unguarded(n, st) ==
    Ret(<<[type |-> "paragraph", text |-> get_text(n.e), src |-> n.p]>>,
        extract_links(n, st))

\* _parse_paragraph
parse_paragraph(n, st) ==
    With(get_text(n.e), LAMBDA text :
        IF text = <<>> THEN Ret(<<>>, st)
        ELSE Ret(<<[type |-> "paragraph", text |-> text, src |-> n.p]>>,
                 extract_links(n, st)))

\* _parse_list
RECURSIVE list_items(_, _)
list_items(lis, acc) ==
    IF lis = <<>> THEN acc
    ELSE With(get_text(Head(lis).e), LAMBDA text :
            list_items(Tail(lis),
                IF text = <<>> THEN acc
                ELSE [items |-> Append(acc.items, text),
                      st |-> extract_links(Head(lis), acc.st)]))

parse_list(n, st) ==
    With(list_items(find_all(n, ByTag("li")), [items |-> <<>>, st |-> st]),
         LAMBDA r :
        IF r.items = <<>> THEN Ret(<<>>, r.st)
        ELSE Ret(<<[type |-> "list", ordered |-> (n.e.tag = "ol"),
                    items |-> r.items, src |-> n.p]>>, r.st))

\* [self._get_text(c) for c in cells]
RECURSIVE cell_texts(_)
cell_texts(cells) == IF cells = <<>> THEN <<>>
                     ELSE <<get_text(Head(cells).e)>> \o cell_texts(Tail(cells))

\* for c in cells: self._extract_links(c)
RECURSIVE cell_links(_, _)
cell_links(cells, st) == IF cells = <<>> THEN st
                         ELSE cell_links(Tail(cells), extract_links(Head(cells), st))

\* _parse_table, the loop over the rows
RECURSIVE table_rows(_, _)
table_rows(trs, acc) ==
    IF trs = <<>> THEN acc
    ELSE With(find_all(Head(trs), ByTags({"td", "th"})), LAMBDA cells :
            table_rows(Tail(trs),
                IF acc.headers = <<>> /\ \A i \in DOMAIN cells : cells[i].e.tag = "th"
                THEN [acc EXCEPT !.headers = cell_texts(cells),
                                 !.st = cell_links(cells, acc.st)]
                ELSE [acc EXCEPT !.rows = IF cells = <<>> THEN @
                                          ELSE Append(@, cell_texts(cells)),
                                 !.st = cell_links(cells, acc.st)]))

\* _parse_table
parse_table(n, st) ==
    With(find(n, ByTag("thead")), LAMBDA thead :
    With(IF thead = <<>> THEN <<>> ELSE find_all(thead[1], ByTag("th")), LAMBDA ths :
    With(OrElse(find(n, ByTag("tbody")), <<n>>), LAMBDA tbody :
    With(table_rows(SelectSeq(children(tbody[1]), LAMBDA x : HasTag(x, "tr")),
                    [headers |-> cell_texts(ths), rows |-> <<>>,
                     st |-> cell_links(ths, st)]), LAMBDA r :
        IF r.headers = <<>> /\ r.rows = <<>> THEN Ret(<<>>, r.st)
        ELSE Ret(<<[type |-> "table", headers |-> r.headers, rows |-> r.rows,
                    src |-> n.p]>>, r.st)))))

\* _parse_description_list, the loop over the children
RECURSIVE dl_items(_, _)
dl_items(cs, acc) ==
    IF cs = <<>> THEN acc
    ELSE LET c == Head(cs)
         IN dl_items(Tail(cs),
                IF c.e.tag = "dt"
                THEN [acc EXCEPT !.current_term = Some(get_text(c.e)),
                                 !.st = extract_links(c, acc.st)]
                ELSE IF c.e.tag = "dd"
                THEN [items |-> Append(acc.items,
                                   <<IF acc.current_term # None
                                     THEN acc.current_term[1] ELSE <<>>,
                                     get_text(c.e)>>),
                      current_term |-> None,
                      st |-> extract_links(c, acc.st)]
                ELSE acc)

\* _parse_description_list without the trailing term
parse_description_list_no_trailing(n, st) ==
    With(dl_items(children(n), [items |-> <<>>, current_term |-> None, st |-> st]),
         LAMBDA r :
        IF r.items = <<>> THEN Ret(<<>>, r.st)
        ELSE Ret(<<[type |-> "description_list", items |-> r.items, src |-> n.p]>>,
                 r.st))

\* _parse_description_list
parse_description_list(n, st) ==
    LET r == dl_items(children(n), [items |-> <<>>, current_term |-> None, st |-> st])
        items == IF r.current_term # None
                 THEN Append(r.items, <<r.current_term[1], <<>> >>)
                 ELSE r.items
    IN IF items = <<>> THEN Ret(<<>>, r.st)
       ELSE Ret(<<[type |-> "description_list", items |-> items, src |-> n.p]>>, r.st)

\* _parse_file with self._extract_link(link_el) in place of the append
parse_file_filtered(n, st) ==
    With(find(n, ByClass("file-title")), LAMBDA title_el :
    With(IF title_el = <<>> THEN <<>> ELSE get_text(title_el[1].e), LAMBDA title :
    With(find(n, ByHref), LAMBDA link_el :
    With(IF link_el = <<>> THEN None ELSE Some(link_el[1].e.href[1]), LAMBDA url :
    With(IF link_el = <<>> THEN st ELSE extract_link(link_el[1], st), LAMBDA st1 :
        IF title = <<>> /\ ~Truthy(url) THEN Ret(<<>>, st1)
        ELSE Ret(<<[type |-> "file", title |-> title, document_type |-> n.e.doctype,
                    url |-> url, src |-> n.p]>>, st1))))))

\* _parse_file.  The fields read from the language-meta text, the reference
\* number and the two dates are left out of the block: they touch neither the
\* walk nor the links.
parse_file(n, st) ==
    With(find(n, ByClass("file-title")), LAMBDA title_el :
    With(IF title_el = <<>> THEN <<>> ELSE get_text(title_el[1].e), LAMBDA title :
    With(find(n, ByHref), LAMBDA link_el :
    With(IF link_el = <<>> THEN None ELSE Some(link_el[1].e.href[1]), LAMBDA url :
    With(IF link_el = <<>> THEN st
         ELSE [st EXCEPT !.links =
                 Append(@, Link(IF title # <<>> THEN title
                                ELSE get_text(link_el[1].e),
                                link_el[1].e.href[1], link_el[1].p))], LAMBDA st1 :
        IF title = <<>> /\ ~Truthy(url) THEN Ret(<<>>, st1)
        ELSE Ret(<<[type |-> "file", title |-> title, document_type |-> n.e.doctype,
                    url |-> url, src |-> n.p]>>, st1))))))

\* img = el.find('img'); img['src'] if img and img.get('src')
image_url(n) ==
    With(find(n, ByTag("img")), LAMBDA img :
        IF img # <<>> /\ Truthy(img[1].e.imgsrc) THEN img[1].e.imgsrc ELSE None)

\* _parse_banner
parse_banner(n, st) ==
    With(OrElse(find(n, ByClass("content-banner-title")), find(n, ByTag("h1"))),
         LAMBDA title_el :
    With(IF title_el = <<>> THEN <<>> ELSE get_text(title_el[1].e), LAMBDA title :
    With(IF title_el = <<>> THEN st ELSE extract_links(title_el[1], st), LAMBDA st1 :
    With(OrElse(find(n, ByClass("content")), find(n, ByClass("card-text"))),
         LAMBDA content_el :
    With(IF content_el = <<>> THEN st1 ELSE extract_links(content_el[1], st1),
         LAMBDA st2 :
    With(find(n, ByHref), LAMBDA link :
    With(IF link = <<>> THEN st2 ELSE extract_link(link[1], st2), LAMBDA st3 :
        IF title = <<>> THEN Ret(<<>>, st3)
        ELSE Ret(<<[type |-> "banner", title |-> title,
                    summary |-> IF content_el = <<>> THEN None
                                ELSE Some(get_text(content_el[1].e)),
                    image_url |-> image_url(n),
                    link_url |-> IF link = <<>> THEN None
                                 ELSE Some(link[1].e.href[1]),
                    src |-> n.p]>>, st3))))))))

\* _parse_date_block
parse_date_block(n, st) ==
    LET date == IF Truthy(n.e.datetime) THEN n.e.datetime[1] ELSE <<>>
    IN With(get_text(n.e), LAMBDA display_text :
        IF date = <<>> /\ display_text = <<>> THEN Ret(<<>>, st)
        ELSE Ret(<<[type |-> "date", date |-> date,
                    display_text |-> Some(display_text), src |-> n.p]>>, st))

\* _parse_card, the metadata loop
RECURSIVE metadata_texts(_)
metadata_texts(ms) ==
    IF ms = <<>> THEN <<>>
    ELSE With(get_text(Head(ms).e), LAMBDA t :
            (IF t = <<>> THEN <<>> ELSE <<t>>) \o metadata_texts(Tail(ms)))

\* _parse_card
parse_card(n, st) ==
    With(OrElse(find(n, ByClass("card-title")), find(n, ByClass("teaser-title"))),
         LAMBDA title_el :
    With(IF title_el = <<>> THEN <<>> ELSE get_text(title_el[1].e), LAMBDA title :
    With(IF title_el = <<>> THEN <<>> ELSE find(title_el[1], ByHref), LAMBDA link :
    With(IF link = <<>> THEN st ELSE extract_link(link[1], st), LAMBDA st1 :
    With(find(n, ByClass("card-text")), LAMBDA text_el :
    With(IF text_el = <<>> THEN st1 ELSE extract_links(text_el[1], st1), LAMBDA st2 :
    With(metadata_texts(find_all(n, ByClass("metadata-item"))), LAMBDA metadata :
        IF title = <<>> THEN Ret(<<>>, st2)
        ELSE Ret(<<[type |-> "card", title |-> title,
                    text |-> IF text_el = <<>> THEN None
                             ELSE Some(get_text(text_el[1].e)),
                    link_url |-> IF link = <<>> THEN None
                                 ELSE Some(link[1].e.href[1]),
                    image_url |-> image_url(n),
                    metadata |-> IF metadata = <<>> THEN None ELSE Some(metadata),
                    src |-> n.p]>>, st2))))))))

\* the first class token with the prefix (and not the excluded token), the
\* prefix removed
RECURSIVE variant_of(_, _, _)
variant_of(cls, prefix, excluded) ==
    IF cls = <<>> THEN None
    ELSE IF cls_startswith(Head(cls), prefix) /\ Head(cls) # excluded
         THEN Some(cls_replace(Head(cls), prefix))
         ELSE variant_of(Tail(cls), prefix, excluded)

\* _parse_alert
parse_alert(n, st) ==
    With(OrElse(find(n, ByClass("notification--content")), <<n>>),
         LAMBDA content_el :
    With(get_text(content_el[1].e), LAMBDA message :
    With(extract_links(content_el[1], st), LAMBDA st1 :
        IF message = <<>> THEN Ret(<<>>, st1)
        ELSE Ret(<<[type |-> "alert",
                    variant |-> variant_of(n.e.cls, "alert-", "alert-dismissible"),
                    message |-> message, src |-> n.p]>>, st1))))

\* _mark_processed without the loop over the descendants
mark_processed_shallow(n, st) == [st EXCEPT !.processed = @ \cup {n.p}]

\* _mark_processed
mark_processed(n, st) ==
    LET ds == descendants(n)
    IN [st EXCEPT !.processed = @ \cup {n.p} \cup {ds[i].p : i \in DOMAIN ds}]

\* _parse_listing, the loop over the items
RECURSIVE listing_items(_, _)
listing_items(els, acc) ==
    IF els = <<>> THEN acc
    ELSE With(parse_card(Head(els), acc.st), LAMBDA r :
            listing_items(Tail(els),
                IF r.blk = <<>> THEN [acc EXCEPT !.st = r.st]
                ELSE [items |-> acc.items \o r.blk,
                      st |-> mark_processed(Head(els), r.st)]))


\* _parse_listing
parse_listing(n, st) ==
    With(listing_items(find_all(n, ByListingItem), [items |-> <<>>, st |-> st]),
         LAMBDA r :
        IF r.items = <<>> THEN Ret(<<>>, r.st)
        ELSE Ret(<<[type |-> "listing",
                    variant |-> variant_of(n.e.cls, "bcl-listing--", ""),
                    items |-> r.items, src |-> n.p]>>, r.st))

SKIP_TAGS == {"script", "style", "noscript", "svg", "button", "form", "input"}
SKIP_CLASSES == {"bcl-inpage-navigation", "breadcrumb", "dropdown-menu"}

\* the catalog in the opposite order
selectors_reversed ==
    << <<"alert", "_parse_alert">>,
       <<"listing-item", "_parse_card">>,
       <<"bcl-date-block", "_parse_date_block">>,
       <<"bcl-listing", "_parse_listing">>,
       <<"bcl-content-banner", "_parse_banner">>,
       <<"accordion", "_parse_accordion">>,
       <<"bcl-file", "_parse_file">> >>

\* _should_skip without the test of the classes
should_skip_by_tag(n, st) ==
    \/ n.e.tag \in {"script", "style", "noscript", "svg", "button", "form", "input"}
    \/ n.p \in st.processed
    \/ n.e.tag = "nav"

COMPONENT_SELECTORS ==
    << <<"bcl-file", "_parse_file">>,
       <<"accordion", "_parse_accordion">>,
       <<"bcl-content-banner", "_parse_banner">>,
       <<"bcl-listing", "_parse_listing">>,
       <<"bcl-date-block", "_parse_date_block">>,
       <<"listing-item", "_parse_card">>,
       <<"alert", "_parse_alert">> >>

\* _should_skip, of a Tag
should_skip(n, st) ==
    \/ n.e.tag \in SKIP_TAGS
    \/ n.p \in st.processed
    \/ ClassSet(n.e) \cap SKIP_CLASSES # {}
    \/ n.e.tag = "nav"

\* _match_component: the parser method's name, or None
RECURSIVE match_from(_, _)
match_from(classes, i) ==
    IF i > Len(COMPONENT_SELECTORS) THEN None
    ELSE IF COMPONENT_SELECTORS[i][1] \in classes THEN Some(COMPONENT_SELECTORS[i][2])
    ELSE match_from(classes, i + 1)

match_component(e) == match_from(ClassSet(e), 1)

GENERIC_TAGS == {"div", "section", "article", "main", "aside", "header", "footer", "span"}
HEADING_TAGS == {"h1", "h2", "h3", "h4", "h5", "h6"}

(***************************************************************************)
(* The recursive walk.  d is the depth of the call on the interpreter's    *)
(* stack; a call deeper than StackLimit raises (RecursionError), and an    *)
(* exception in flight (st.raised) ends every loop it passes through: no   *)
(* method of the class has a try statement.                                *)
(***************************************************************************)
RECURSIVE parse_children(_, _, _)
RECURSIVE walk(_, _, _)
RECURSIVE parse_child(_, _, _)
RECURSIVE parse_accordion(_, _, _)
RECURSIVE accordion_items(_, _, _)
RECURSIVE parse_blockquote(_, _, _)

\* getattr(self, parser_method)(child)
run_parser(method, n, d, st) ==
    CASE method = "_parse_file"       -> parse_file(n, st)
      [] method = "_parse_accordion"  -> parse_accordion(n, d, st)
      [] method = "_parse_banner"     -> parse_banner(n, st)
      [] method = "_parse_listing"    -> parse_listing(n, st)
      [] method = "_parse_date_block" -> parse_date_block(n, st)
      [] method = "_parse_card"       -> parse_card(n, st)
      [] method = "_parse_alert"      -> parse_alert(n, st)

\* blocks.insert(0, block) in place of blocks.append(block)
EmitFirst(acc, r) == [blocks |-> r.blk \o acc.blocks, st |-> r.st]

\* what _parse_children does with an extractor's block: append it if there
\* is one
Emit(acc, r) == [blocks |-> acc.blocks \o r.blk, st |-> r.st]

\* the same, followed by self._mark_processed(child)
EmitAndMark(acc, r, n) ==
    IF r.st.raised THEN [blocks |-> acc.blocks, st |-> r.st]
    ELSE [blocks |-> acc.blocks \o r.blk, st |-> mark_processed(n, r.st)]

\* what an extractor gave back: its block (or None), self.links and the
\* visited set when it returned
NoRet == [returned |-> FALSE, blk |-> <<>>, links |-> <<>>, processed |-> {}]

\* the extractor called in the k-th iteration returned r
Got(k, r) ==
    IF r.st.raised THEN r
    ELSE [r EXCEPT !.st.trace[k].ret =
             [returned |-> TRUE, blk |-> r.blk, links |-> r.st.links,
              processed |-> r.st.processed]]

\* _parse_children, the branch of a child that matches a component
component_branch(method, n, d, acc) ==
    EmitAndMark(acc,
                Got(Len(acc.st.trace),
                    run_parser(method, n, d + 1,
                               [acc.st EXCEPT !.consumed = @ \cup {n.p}])),
                n)

\* the lengths of the block list and of self.links, and the visited set
Snapshot(acc) == [blocks |-> Len(acc.blocks), links |-> Len(acc.st.links),
                  processed |-> acc.st.processed]

\* the loop reaches child n
Enter(n, acc) ==
    [acc EXCEPT !.st.trace =
        Append(@, [p |-> n.p, handler |-> "", visited |-> n.p \in acc.st.processed,
                   before |-> Snapshot(acc), after |-> Snapshot(acc),
                   ret |-> NoRet])]

\* the k-th iteration took this branch and left acc
Took(handler, k, acc) ==
    [acc EXCEPT !.st.trace[k].handler = handler, !.st.trace[k].after = Snapshot(acc)]

\* the body of the loop without the final else branch: a tag that is not a
\* container is left alone
parse_child_known_only(n, d, acc) ==
    With(Enter(n, acc), LAMBDA a :
    With(Len(a.st.trace), LAMBDA k :
    IF should_skip(n, a.st) THEN Took("skip", k, a)
    ELSE With(match_component(n.e), LAMBDA parser_method :
    IF parser_method # None
    THEN Took(parser_method[1], k, component_branch(parser_method[1], n, d, a))
    ELSE IF n.e.tag \in HEADING_TAGS
    THEN Took("_parse_heading", k, Emit(a, Got(k, parse_heading(n, a.st))))
    ELSE IF n.e.tag = "p"
    THEN Took("_parse_paragraph", k, Emit(a, Got(k, parse_paragraph(n, a.st))))
    ELSE IF n.e.tag = "table"
    THEN Took("_parse_table", k, EmitAndMark(a, Got(k, parse_table(n, a.st)), n))
    ELSE IF n.e.tag \in {"ul", "ol"}
    THEN Took("_parse_list", k, EmitAndMark(a, Got(k, parse_list(n, a.st)), n))
    ELSE IF n.e.tag = "dl"
    THEN Took("_parse_description_list", k,
              EmitAndMark(a, Got(k, parse_description_list(n, a.st)), n))
    ELSE IF n.e.tag = "blockquote"
    THEN Took("_parse_blockquote", k,
              EmitAndMark(a, Got(k, parse_blockquote(n, d + 1, a.st)), n))
    ELSE IF n.e.tag = "a"
    THEN Took("_extract_link", k, [a EXCEPT !.st = extract_link(n, a.st)])
    ELSE IF n.e.tag \notin GENERIC_TAGS THEN Took("", k, a)
    ELSE With(parse_children(n, d + 1, a.st), LAMBDA nested :
            Took("_parse_children", k,
                 [blocks |-> a.blocks \o nested.blocks, st |-> nested.st])))))

\* _parse_children, the body of the loop for one Tag child
parse_child(n, d, acc) ==
    With(Enter(n, acc), LAMBDA a :
    With(Len(a.st.trace), LAMBDA k :
    IF should_skip(n, a.st) THEN Took("skip", k, a)
    ELSE With(match_component(n.e), LAMBDA parser_method :
    IF parser_method # None
    THEN Took(parser_method[1], k, component_branch(parser_method[1], n, d, a))
    ELSE IF n.e.tag \in HEADING_TAGS
    THEN Took("_parse_heading", k, Emit(a, Got(k, parse_heading(n, a.st))))
    ELSE IF n.e.tag = "p"
    THEN Took("_parse_paragraph", k, Emit(a, Got(k, parse_paragraph(n, a.st))))
    ELSE IF n.e.tag = "table"
    THEN Took("_parse_table", k, EmitAndMark(a, Got(k, parse_table(n, a.st)), n))
    ELSE IF n.e.tag \in {"ul", "ol"}
    THEN Took("_parse_list", k, EmitAndMark(a, Got(k, parse_list(n, a.st)), n))
    ELSE IF n.e.tag = "dl"
    THEN Took("_parse_description_list", k,
              EmitAndMark(a, Got(k, parse_description_list(n, a.st)), n))
    ELSE IF n.e.tag = "blockquote"
    THEN Took("_parse_blockquote", k,
              EmitAndMark(a, Got(k, parse_blockquote(n, d + 1, a.st)), n))
    ELSE IF n.e.tag = "a"
    THEN Took("_extract_link", k, [a EXCEPT !.st = extract_link(n, a.st)])
    ELSE \* a generic container, or any other tag: recurse
         With(parse_children(n, d + 1, a.st), LAMBDA nested :
            Took("_parse_children", k,
                 [blocks |-> a.blocks \o nested.blocks, st |-> nested.st])))))

walk(cs, d, acc) ==
    IF cs = <<>> \/ acc.st.raised THEN acc
    ELSE walk(Tail(cs), d, parse_child(Head(cs), d, acc))

\* _parse_children
parse_children(n, d, st) ==
    IF d > StackLimit THEN [blocks |-> <<>>, st |-> Raise(st)]
    ELSE walk(children(n), d, [blocks |-> <<>>, st |-> st])

\* _parse_accordion, the loop over the items
accordion_items(els, d, acc) ==
    IF els = <<>> \/ acc.st.raised THEN acc
    ELSE With(Head(els), LAMBDA item_el :
         With(find(item_el, ByClass("accordion-header")), LAMBDA header :
         With(IF header = <<>> THEN <<>> ELSE find(header[1], ByTag("button")),
              LAMBDA button :
         With(IF header = <<>> THEN <<>>
              ELSE IF button # <<>> THEN get_text(button[1].e)
              ELSE get_text(header[1].e), LAMBDA title :
         With(find(item_el, ByClass("accordion-body")), LAMBDA body :
         With(IF body = <<>> THEN [blocks |-> <<>>, st |-> acc.st]
              ELSE parse_children(body[1], d + 1, acc.st), LAMBDA content :
            accordion_items(Tail(els), d,
                [items |-> IF title # <<>> \/ content.blocks # <<>>
                           THEN Append(acc.items,
                                       [title |-> title, content |-> content.blocks,
                                        src |-> item_el.p])
                           ELSE acc.items,
                 st |-> content.st])))))))

\* _parse_accordion
parse_accordion(n, d, st) ==
    IF d > StackLimit THEN Ret(<<>>, Raise(st))
    ELSE With(accordion_items(find_all(n, ByClass("accordion-item")),
                              d, [items |-> <<>>, st |-> st]), LAMBDA r :
            IF r.items = <<>> \/ r.st.raised THEN Ret(<<>>, r.st)
            ELSE Ret(<<[type |-> "accordion", items |-> r.items, src |-> n.p]>>,
                     r.st))

\* _parse_blockquote without the walk of the children
parse_blockquote_text_only(n, d, st) ==
    With(get_text(n.e), LAMBDA text :
        IF text = <<>> THEN Ret(<<>>, st)
        ELSE Ret(<<[type |-> "blockquote",
                    content |-> <<[type |-> "paragraph", text |-> text, src |-> n.p]>>,
                    src |-> n.p]>>, st))

\* _parse_blockquote
parse_blockquote(n, d, st) ==
    IF d > StackLimit THEN Ret(<<>>, Raise(st))
    ELSE With(parse_children(n, d + 1, st), LAMBDA nested :
         With(IF nested.blocks # <<>> THEN nested.blocks
              ELSE With(get_text(n.e), LAMBDA text :
                    IF text # <<>>
                    THEN <<[type |-> "paragraph", text |-> text, src |-> n.p]>>
                    ELSE <<>>), LAMBDA content :
            IF content = <<>> \/ nested.st.raised THEN Ret(<<>>, nested.st)
            ELSE Ret(<<[type |-> "blockquote", content |-> content, src |-> n.p]>>,
                     nested.st)))

(***************************************************************************)
(* parse(main).  The argument is None or an element of the document; the   *)
(* dicts that _block_to_dict and asdict build hold the fields of the       *)
(* blocks and links unchanged, and are these records.                      *)
(***************************************************************************)
RECURSIVE ElementAt(_, _)
ElementAt(e, p) == IF p = <<>> THEN e ELSE ElementAt(e.kids[Head(p)], Tail(p))

Returned(blocks, lks) == [status |-> "returned", blocks |-> blocks, links |-> lks]
Raised == [status |-> "raised", blocks |-> <<>>, links |-> <<>>]
NoResult == [status |-> "none", blocks |-> <<>>, links |-> <<>>]

\* parse() without the two assignments that reset the instance
reset_missing(st) == [st EXCEPT !.raised = FALSE, !.consumed = {}, !.trace = <<>>]

\* parse() without the second assignment of the reset
reset_links_only(st) == [NewState EXCEPT !.processed = st.processed]

\* the reset at the start of parse(): the instance's fields after it
reset(st) == NewState

\* the run of parse(main) on an instance in state st: the state it leaves
\* and what the caller gets
parse_return(r) ==
    [st |-> r.st,
     result |-> IF r.st.raised THEN Raised ELSE Returned(r.blocks, r.st.links)]

parse(doc, main, st) ==
    IF main = None
    THEN [st |-> Raise(reset(st)), result |-> Raised]
    ELSE parse_return(parse_children(Node(main[1], ElementAt(doc, main[1])),
                                     1, reset(st)))

(***************************************************************************)
(* The pages.  A page is a main element with at most MaxTop children drawn *)
(* from Fragments: plain content, containers, and the components of the    *)
(* catalog, in the shapes their docstrings show and in degenerate ones.    *)
(***************************************************************************)
A(href, text) == [El("a", <<>>, text, <<>>) EXCEPT !.href = Some(href)]
WithTail(e, tail) == [e EXCEPT !.tail = tail]

hT == El("h1", <<>>, <<"Test", " ", "Page">>, <<>>)
aX == A(<<"/x">>, <<"l">>)
aN == A(<<"/x">>, <<" ">>)
aF == A(<<"#", "section">>, <<"l">>)
aJ == A(<<"javascript:", "void(0)">>, <<"l">>)
aE == A(<<>>, <<"l">>)
aM == El("a", <<>>, <<"l">>, <<>>)
\* <p>a <a href="/x">l</a>\n b</p>
pL == El("p", <<>>, <<"a", " ">>, <<WithTail(aX, <<"\n", " ", "b">>)>>)
pE == El("p", <<>>, <<" ", "\n">>, <<>>)

AccordionItemEl(title, kids) ==
    El("div", <<"accordion-item">>, <<>>,
       << El("h2", <<"accordion-header">>, <<>>, <<El("button", <<>>, title, <<>>)>>),
          El("div", <<"accordion-collapse">>, <<>>,
             <<El("div", <<"accordion-body">>, <<>>, kids)>>) >>)
AccordionEl(items) == El("div", <<"accordion">>, <<>>, items)

CardEl(title) ==
    El("article", <<"listing-item", "card">>, <<>>,
       << El("h4", <<"card-title">>, <<>>,
             IF title = <<>> THEN <<>> ELSE <<A(<<"/c">>, title)>>),
          El("div", <<"card-text">>, <<"d", " ">>, <<A(<<"/d">>, <<"D">>)>>) >>)

\* a table with a header row and a link in its data row
tX == El("table", <<>>, <<>>,
         << El("tr", <<>>, <<>>, <<El("th", <<>>, <<"H">>, <<>>)>>),
            El("tr", <<>>, <<>>, <<El("td", <<>>, <<>>, <<aX>>)>>) >>)

\* tables: a data row before a row of th; a thead and a body row of th; a
\* thead without th; a row without cells first
Tr(cells) == El("tr", <<>>, <<>>, cells)
Td(text) == El("td", <<>>, text, <<>>)
Th(text) == El("th", <<>>, text, <<>>)
TablesEl ==
    El("section", <<>>, <<>>,
       << El("table", <<>>, <<>>, <<Tr(<<Td(<<"1">>)>>), Tr(<<Th(<<"H">>)>>)>>),
          El("table", <<>>, <<>>,
             << El("thead", <<>>, <<>>, <<Tr(<<Th(<<"H">>)>>)>>),
                El("tbody", <<>>, <<>>,
                   <<Tr(<<Th(<<"X">>)>>), Tr(<<Td(<<"1">>), Td(<<"2">>)>>)>>) >>),
          El("table", <<>>, <<>>,
             << El("thead", <<>>, <<>>, <<Tr(<<Td(<<"h">>)>>)>>),
                El("tbody", <<>>, <<>>, <<Tr(<<Th(<<"X">>)>>), Tr(<<Td(<<"1">>)>>)>>) >>),
          El("table", <<>>, <<>>, <<Tr(<<>>), Tr(<<Td(<<"1">>)>>)>>) >>)

\* description lists: a dd with no dt before it, a dt followed by a dt, a
\* dt at the end, a child that is neither; and a paragraph and a heading
\* whose only content is an anchor without text
ListsEl ==
    El("section", <<>>, <<>>,
       << El("dl", <<>>, <<>>,
             << El("dd", <<>>, <<"d0">>, <<>>),
                El("dt", <<>>, <<"t1">>, <<>>),
                El("dt", <<>>, <<"t2">>, <<>>),
                El("div", <<>>, <<"x">>, <<>>),
                El("dd", <<>>, <<"d2">>, <<A(<<"/e">>, <<"e">>)>>),
                El("dt", <<>>, <<"t3">>, <<>>) >>),
          El("dl", <<>>, <<>>,
             << El("dt", <<>>, <<"t">>, <<>>), El("dd", <<>>, <<>>, <<>>),
                El("dd", <<>>, <<"d">>, <<>>) >>),
          El("p", <<>>, <<>>, <<A(<<"/x">>, <<>>)>>),
          El("h3", <<>>, <<" ">>, <<A(<<"/x">>, <<>>)>>) >>)

\* elements whose extractors find nothing to keep
Empties ==
    El("section", <<>>, <<>>,
       << El("h2", <<>>, <<" ">>, <<>>),
          El("ol", <<>>, <<>>, <<El("li", <<>>, <<"\n">>, <<>>)>>),
          El("table", <<>>, <<>>, <<El("tbody", <<>>, <<>>, <<>>)>>),
          El("dl", <<>>, <<>>, <<El("div", <<>>, <<"x">>, <<>>)>>),
          El("div", <<"bcl-content-banner">>, <<>>, <<pL>>),
          El("time", <<"bcl-date-block">>, <<>>, <<>>),
          AccordionEl(<<AccordionItemEl(<<>>, <<pE>>)>>),
          El("div", <<"bcl-listing">>, <<>>, <<CardEl(<<>>)>>) >>)

\* k nested div around a paragraph
RECURSIVE Chain(_)
Chain(k) == IF k = 0 THEN pL ELSE El("div", <<>>, <<>>, <<Chain(k - 1)>>)
\* a blockquote whose content is nested one level deeper than the stack allows
DeepQuote == El("blockquote", <<>>, <<>>, <<Chain(StackLimit - 2)>>)

Fragments ==
    { hT, pL, pE, aX,
      El("div", <<>>, <<>>, <<aN, aF, pL>>),
      El("span", <<>>, <<>>, <<aJ, aE, aM>>),
      El("figure", <<>>, <<>>, <<hT, pL>>),
      El("nav", <<>>, <<>>, <<pL>>),
      El("div", <<"breadcrumb">>, <<>>, <<pL>>),
      El("blockquote", <<>>, <<>>, <<pL, hT>>),
      El("blockquote", <<>>, <<"q">>, <<>>),
      El("blockquote", <<>>, <<>>, <<pE>>),
      El("div", <<"alert", "alert-dismissible", "alert-info">>, <<>>,
         <<El("div", <<"notification--content">>, <<>>, <<pL>>)>>),
      El("div", <<"alert">>, <<>>, <<pE>>),
      AccordionEl(<<AccordionItemEl(<<"TB">>, <<pL>>), AccordionItemEl(<<>>, <<>>)>>),
      AccordionEl(<<AccordionItemEl(<<"TB">>,
                      <<AccordionEl(<<AccordionItemEl(<<"TA">>, <<pL>>)>>)>>)>>),
      AccordionEl(<<AccordionItemEl(<<"TB">>, <<AccordionItemEl(<<"TA">>, <<pL>>)>>)>>),
      El("div", <<"bcl-file">>, <<>>,
         <<El("p", <<"file-title">>, <<"F">>, <<>>), A(<<"/f">>, <<"View">>)>>),
      El("div", <<"bcl-file">>, <<>>,
         <<El("p", <<"file-title">>, <<"F">>, <<>>), A(<<"#", "top">>, <<"View">>)>>),
      El("div", <<"bcl-file">>, <<>>, <<A(<<>>, <<>>)>>),
      El("div", <<"bcl-content-banner">>, <<>>,
         << El("h1", <<"content-banner-title">>, <<>>, <<A(<<"/a">>, <<"A">>)>>),
            El("div", <<"content">>, <<>>, <<A(<<"/b">>, <<"B">>)>>) >>),
      CardEl(<<"C">>),
      El("div", <<"bcl-listing", "bcl-listing--highlight-3-col">>, <<>>,
         <<CardEl(<<"C">>), CardEl(<<>>)>>),
      [El("time", <<"bcl-date-block">>, <<"08", " ", "Jan">>, <<>>)
          EXCEPT !.datetime = Some(<<"2026-01-08">>)],
      \* tables, description lists, and a card whose only class is
      \* listing-item--highlight
      El("section", <<>>, <<>>,
         <<TablesEl, ListsEl,
           [CardEl(<<"C">>) EXCEPT !.cls = <<"listing-item--highlight">>]>>),
      \* two classes of the catalog, the later entry first, on a p
      El("p", <<"alert", "bcl-file">>, <<"x">>, <<aX>>),
      \* a class of the catalog on a tag and with a class that are skipped
      El("div", <<>>, <<>>,
         <<El("form", <<"accordion">>, <<>>, <<AccordionItemEl(<<"TB">>, <<pL>>)>>),
           El("div", <<"dropdown-menu", "bcl-file">>, <<>>, <<aX>>)>>),
      El("ul", <<>>, <<>>,
         << El("li", <<>>, <<"Item", " ", "1">>, <<>>),
            El("li", <<>>, <<>>,
               <<aX, El("ul", <<>>, <<>>,
                        <<El("li", <<>>, <<>>, <<A(<<"/y">>, <<"m">>)>>)>>)>>) >>),
      tX,
      El("dl", <<>>, <<>>,
         << El("dd", <<>>, <<"d">>, <<>>), El("dt", <<>>, <<"t">>, <<aX>>) >>),
      Empties,
      DeepQuote }

RECURSIVE SeqsUpTo(_, _)
SeqsUpTo(S, k) ==
    IF k = 0 THEN {<<>>}
    ELSE SeqsUpTo(S, k - 1) \cup
         {Append(s, x) : s \in {t \in SeqsUpTo(S, k - 1) : Len(t) = k - 1}, x \in S}

\* <main><h1>Test Page</h1><p>This is a <a href="/link1">test link</a>
\* paragraph.</p><h2>Section</h2><ul><li>Item 1</li><li>Item 2</li></ul></main>
ScenarioPage ==
    El("main", <<>>, <<>>,
       << El("h1", <<>>, <<"Test", " ", "Page">>, <<>>),
          El("p", <<>>, <<"This", " ", "is", " ", "a", " ">>,
             <<WithTail(A(<<"/link1">>, <<"test", " ", "link">>),
                        <<" ", "paragraph.">>)>>),
          El("h2", <<>>, <<"Section">>, <<>>),
          El("ul", <<>>, <<>>,
             << El("li", <<>>, <<"Item", " ", "1">>, <<>>),
                El("li", <<>>, <<"Item", " ", "2">>, <<>>) >>) >>)

Pages == {El("main", <<"main-content-wrapper">>, <<>>, kids) :
              kids \in SeqsUpTo(Fragments, MaxTop)}
         \cup {ScenarioPage}

\* the arguments a caller passes to parse(): None (no main content found) or
\* the main element, as a path in the page
RootArgs == {None, Some(<<>>)}

(***************************************************************************)
(* The state machine: one EmaPageParser instance and the page its caller   *)
(* holds.  result is what the last call of parse() gave its caller, root   *)
(* the argument of that call, consumed the elements it handed to a         *)
(* component extractor, prior the instance's fields when it began.         *)
(***************************************************************************)
\* no concurrent calls
NoInstances == <<>>
NoCalls == <<>>

\* no converter
NoOutput == [status |-> "none", text |-> <<>>]
MdIdle ==
    /\ md_blocks = <<>>
    /\ skip_types = {}
    /\ markdown = NoOutput
    /\ skip_arg = None
    /\ blocks_before = <<>>

Self == [links |-> links, processed |-> processed_elements,
         raised |-> FALSE, consumed |-> {}, trace |-> <<>>]

\* EmaPageParser.__init__
Init ==
    /\ dom \in Pages
    /\ links = <<>>
    /\ processed_elements = {}
    /\ result = NoResult
    /\ root = None
    /\ consumed = {}
    /\ trace = <<>>
    /\ prior = [links |-> <<>>, processed |-> {}]
    /\ inst = NoInstances
    /\ call = NoCalls
    /\ MdIdle

\* parser.parse(main)
Parse(main) ==
    \E r \in {parse(dom, main, Self)} :
       /\ links' = r.st.links
       /\ processed_elements' = r.st.processed
       /\ consumed' = r.st.consumed
       /\ trace' = r.st.trace
       /\ result' = r.result
       /\ root' = main
       /\ prior' = [links |-> links, processed |-> processed_elements]
       /\ UNCHANGED <<dom, inst, call>>
       /\ UNCHANGED mdvars

Next == \E main \in RootArgs : Parse(main)

Spec == Init /\ [][Next]_vars

(***************************************************************************)
(* Two concurrent calls of parse(main) on the same page.  A call's steps   *)
(* are the two assignments of the reset (lines 73 and 74), one step per    *)
(* child of main in the loop of _parse_children, and the return statement, *)
(* which reads self.links.  self.links and self._processed_elements are    *)
(* fields of the instance; blocks and the loop position are local to the   *)
(* call.  overlapped (not in the code) records that a step of the other    *)
(* call ran between the call's first step and its last.                    *)
(***************************************************************************)
Threads == {1, 2}

\* the pages the two calls parse
ConcPages == {El("main", <<"main-content-wrapper">>, <<>>, kids) :
                  kids \in SeqsUpTo({pL, aX, tX}, MaxTop)}

\* the fields created on the class instead: every instance has the same
fields_of_class(i) == 1

\* __init__ creates the two fields on the instance: instance i has its own
fields_of(i) == i

NewInstance == [links |-> <<>>, processed |-> {}]
NewCall(self) == [self |-> self, pc |-> "reset_links", i |-> 1, blocks |-> <<>>,
                  result |-> NoResult, overlapped |-> FALSE]

\* the run-state a step of call t works on: the fields of its instance
FieldsOf(t) == inst[fields_of(call[t].self)]
StateOf(t) == [links |-> FieldsOf(t).links, processed |-> FieldsOf(t).processed,
               raised |-> FALSE, consumed |-> {}, trace |-> <<>>]

InProgress(t) == call[t].pc \in {"reset_processed", "walk"}

\* call t takes a step: c is the call after it, f the fields of its instance
Step(t, c, f) ==
    /\ call' = [u \in Threads |->
                  IF u = t
                  THEN [c EXCEPT !.overlapped =
                            @ \/ \E v \in Threads \ {t} : InProgress(v)]
                  ELSE [call[u] EXCEPT !.overlapped = @ \/ InProgress(u)]]
    /\ inst' = [inst EXCEPT ![fields_of(call[t].self)] = f]
    /\ UNCHANGED <<dom, links, processed_elements, result, root, consumed, prior,
                   trace>>
    /\ UNCHANGED mdvars

\* self.links = []
ResetLinks(t) ==
    /\ call[t].pc = "reset_links"
    /\ Step(t, [call[t] EXCEPT !.pc = "reset_processed"],
            [FieldsOf(t) EXCEPT !.links = reset(StateOf(t)).links])

\* self._processed_elements = set()
ResetProcessed(t) ==
    /\ call[t].pc = "reset_processed"
    /\ Step(t, [call[t] EXCEPT !.pc = "walk"],
            [FieldsOf(t) EXCEPT !.processed = reset(StateOf(t)).processed])

\* one iteration of the loop of _parse_children(main)
WalkChild(t) ==
    /\ call[t].pc = "walk"
    /\ call[t].i <= Len(dom.kids)
    /\ \E r \in {parse_child(Child(Node(<<>>, dom), call[t].i), 1,
                              [blocks |-> call[t].blocks, st |-> StateOf(t)])} :
          Step(t,
               IF r.st.raised
               THEN [call[t] EXCEPT !.pc = "done", !.result = Raised]
               ELSE [call[t] EXCEPT !.i = @ + 1, !.blocks = r.blocks],
               [links |-> r.st.links, processed |-> r.st.processed])

\* the return statement
Return(t) ==
    /\ call[t].pc = "walk"
    /\ call[t].i > Len(dom.kids)
    /\ Step(t,
            [call[t] EXCEPT
                !.pc = "done",
                !.result = parse_return([blocks |-> call[t].blocks,
                                         st |-> StateOf(t)]).result],
            FieldsOf(t))

ConcInit(selves) ==
    /\ dom \in ConcPages
    /\ links = <<>>
    /\ processed_elements = {}
    /\ result = NoResult
    /\ root = None
    /\ consumed = {}
    /\ trace = <<>>
    /\ prior = [links |-> <<>>, processed |-> {}]
    /\ inst = [i \in {1, 2} |-> NewInstance]
    /\ call = [t \in Threads |-> NewCall(selves[t])]
    /\ MdIdle

\* the two calls run on two parser instances
InitSeparate == ConcInit(<<1, 2>>)
\* the two calls run on one parser instance
InitShared == ConcInit(<<1, 1>>)

NextConc ==
    \E t \in Threads :
        ResetLinks(t) \/ ResetProcessed(t) \/ WalkChild(t) \/ Return(t)

SpecSeparate == InitSeparate /\ [][NextConc]_vars
SpecShared == InitShared /\ [][NextConc]_vars

(***************************************************************************)
(* MarkdownConverter.  A block dict is a record; a key the dict lacks is a *)
(* field the record lacks.  A renderer gives [raised, text, block]: whether *)
(* it raised, the string it returned, and the block dict after the call    *)
(* (the dict is the caller's object, so what a renderer writes into it the *)
(* caller sees).  The converter's only field is skip_types, passed as self. *)
(***************************************************************************)
SKIP_TYPES == {"banner", "listing", "card", "alert", "date"}

\* the _render_ methods of the class
RENDERERS == {"heading", "paragraph", "list", "description_list", "table",
              "blockquote", "file", "accordion"}

\* skip_types or self.SKIP_TYPES
init_skip_types_falsy(arg) == IF arg # None /\ arg[1] # {} THEN arg[1] ELSE SKIP_TYPES

\* MarkdownConverter.__init__
init_skip_types(arg) == IF arg # None THEN arg[1] ELSE SKIP_TYPES

\* block.get(key, default)
Get(b, key, default) == IF key \in DOMAIN b THEN b[key] ELSE default

\* block.get('type')
block_type_of(b) == IF "type" \in DOMAIN b THEN Some(b.type) ELSE None

\* getattr(self, f'_render_{block_type}') without the default
lookup_renderer_strict(block_type) ==
    IF block_type = None THEN Some("None") ELSE block_type

\* getattr(self, f'_render_{block_type}', None)
lookup_renderer(block_type) ==
    IF block_type # None /\ block_type[1] \in RENDERERS THEN block_type ELSE None

Rendered(text, b) == [raised |-> FALSE, text |-> text, block |-> b]
RenderRaised(b) == [raised |-> TRUE, text |-> <<>>, block |-> b]

\* '#' * level
RECURSIVE Hashes(_)
Hashes(level) == IF level <= 0 THEN <<>> ELSE <<"#">> \o Hashes(level - 1)

\* _render_heading
render_heading(b) ==
    Rendered(Hashes(Get(b, "level", 1)) \o <<" ">> \o Get(b, "text", <<>>), b)

\* _render_paragraph
render_paragraph(b) == Rendered(Get(b, "text", <<>>), b)

\* _render_list, the loop
RECURSIVE list_lines(_, _, _)
list_lines(items, i, ordered) ==
    IF i > Len(items) THEN <<>>
    ELSE <<(IF ordered THEN <<ToString(i), ".">> ELSE <<"-">>) \o <<" ">> \o items[i]>>
         \o list_lines(items, i + 1, ordered)

\* _render_list
render_list(b) ==
    Rendered(join(<<"\n">>, list_lines(Get(b, "items", <<>>), 1,
                                       Get(b, "ordered", FALSE))), b)

\* _render_description_list, the loop: unpacking an item that is not a pair
\* raises ValueError
RECURSIVE dl_lines(_)
dl_lines(items) ==
    IF items = <<>> THEN [raised |-> FALSE, lines |-> <<>>]
    ELSE IF Len(Head(items)) # 2 THEN [raised |-> TRUE, lines |-> <<>>]
    ELSE With(dl_lines(Tail(items)), LAMBDA r :
         LET term == Head(items)[1]
             description == Head(items)[2]
         IN [raised |-> r.raised,
             lines |-> (IF term # <<>> /\ description # <<>>
                        THEN << <<"**">> \o term \o <<":**", " ">> \o description >>
                        ELSE IF term # <<>> THEN << <<"**">> \o term \o <<"**">> >>
                        ELSE IF description # <<>> THEN <<description>>
                        ELSE <<>>) \o r.lines])

\* _render_description_list
render_description_list(b) ==
    With(dl_lines(Get(b, "items", <<>>)), LAMBDA r :
        IF r.raised THEN RenderRaised(b)
        ELSE Rendered(join(<<"\n">>, r.lines), b))

\* '| ' + ' | '.join(cells) + ' |'
table_row(cells) == <<"|", " ">> \o join(<<" ", "|", " ">>, cells) \o <<" ", "|">>

\* ['---'] * n
RECURSIVE dashes(_)
dashes(n) == IF n <= 0 THEN <<>> ELSE << <<"---">> >> \o dashes(n - 1)

\* the loop over the rows without the while loop
pad_none(row, n) == row

\* while len(row) < len(headers): row.append('')
RECURSIVE pad(_, _)
pad(row, n) == IF Len(row) < n THEN pad(Append(row, <<>>), n) ELSE row

\* _render_table: row is an element of the block's own rows list, so the
\* cells it appends stay in the block
render_table(b) ==
    LET headers == Get(b, "headers", <<>>)
        rows    == Get(b, "rows", <<>>)
    IN IF headers = <<>> /\ rows = <<>> THEN Rendered(<<>>, b)
       ELSE With(IF headers # <<>>
                 THEN [i \in 1..Len(rows) |-> pad(rows[i], Len(headers))]
                 ELSE rows, LAMBDA rows_after :
            Rendered(join(<<"\n">>,
                          (IF headers # <<>>
                           THEN <<table_row(headers), table_row(dashes(Len(headers)))>>
                           ELSE <<>>)
                          \o [i \in 1..Len(rows_after) |-> table_row(rows_after[i])]),
                     IF "rows" \in DOMAIN b THEN [b EXCEPT !.rows = rows_after]
                     ELSE b))

\* block.get(key), of a key whose value is a string or None
Opt(b, key) == Get(b, key, None)

\* _render_file
render_file(b) ==
    LET title == Get(b, "title", <<"Untitled">>)
        url   == Get(b, "url", Some(<<>>))
        line1 == IF Truthy(url)
                 THEN <<"**[">> \o title \o <<"](">> \o url[1] \o <<")**">>
                 ELSE <<"**">> \o title \o <<"**">>
        file_info == (IF Truthy(Opt(b, "file_format"))
                      THEN <<Opt(b, "file_format")[1]>> ELSE <<>>)
                     \o (IF Truthy(Opt(b, "file_size"))
                         THEN <<Opt(b, "file_size")[1]>> ELSE <<>>)
        meta_parts ==
            (IF Truthy(Opt(b, "reference_number"))
             THEN << <<"Reference:", " ">> \o Opt(b, "reference_number")[1] >>
             ELSE <<>>)
            \o (IF file_info # <<>> THEN <<join(<<",", " ">>, file_info)>> ELSE <<>>)
            \o (IF Truthy(Opt(b, "first_published"))
                THEN << <<"Published:", " ">> \o Opt(b, "first_published")[1] >>
                ELSE <<>>)
    IN IF meta_parts # <<>>
       THEN Rendered(line1 \o <<" ", " ", "\n">> \o join(<<" ", "|", " ">>, meta_parts), b)
       ELSE Rendered(line1, b)

\* inner_md.split('\n')
RECURSIVE split_lines(_)
split_lines(s) ==
    IF \A i \in 1..Len(s) : s[i] # "\n" THEN <<s>>
    ELSE With(CHOOSE i \in 1..Len(s) : s[i] = "\n" /\ \A j \in 1..(i - 1) : s[j] # "\n",
              LAMBDA i : <<SubSeq(s, 1, i - 1)>> \o split_lines(SubSeq(s, i + 1, Len(s))))

\* f"> {line}" for line in lines
RECURSIVE quote_lines(_)
quote_lines(lines) ==
    IF lines = <<>> THEN <<>>
    ELSE << <<">", " ">> \o Head(lines) >> \o quote_lines(Tail(lines))

RECURSIVE convert(_, _)
RECURSIVE convert_from(_, _, _)
RECURSIVE render(_, _, _)
RECURSIVE render_blockquote(_, _)
RECURSIVE render_accordion(_, _)
RECURSIVE accordion_parts(_, _, _)

\* _render_blockquote
render_blockquote(self, b) ==
    With(convert(self, Get(b, "content", <<>>)), LAMBDA r :
    With(IF "content" \in DOMAIN b THEN [b EXCEPT !.content = r.blocks] ELSE b,
         LAMBDA b_after :
        IF r.raised THEN RenderRaised(b_after)
        ELSE Rendered(join(<<"\n">>, quote_lines(split_lines(r.text))), b_after)))

\* _render_accordion, the loop over the items
accordion_parts(self, items, acc) ==
    IF items = <<>> \/ acc.raised THEN acc
    ELSE With(Head(items), LAMBDA item :
         With(convert(self, Get(item, "content", <<>>)), LAMBDA r :
         LET title == Get(item, "title", <<>>)
             item_after == IF "content" \in DOMAIN item
                           THEN [item EXCEPT !.content = r.blocks] ELSE item
         IN accordion_parts(self, Tail(items),
                [raised |-> r.raised,
                 parts  |-> acc.parts
                            \o (IF title # <<>> THEN << <<"###", " ">> \o title >>
                                ELSE <<>>)
                            \o (IF r.text # <<>> THEN <<r.text>> ELSE <<>>),
                 items  |-> Append(acc.items, item_after)])))

\* _render_accordion
render_accordion(self, b) ==
    With(accordion_parts(self, Get(b, "items", <<>>),
                         [raised |-> FALSE, parts |-> <<>>, items |-> <<>>]),
         LAMBDA r :
    With(IF "items" \in DOMAIN b
         THEN [b EXCEPT !.items = r.items \o SubSeq(@, Len(r.items) + 1, Len(@))]
         ELSE b, LAMBDA b_after :
        IF r.raised THEN RenderRaised(b_after)
        ELSE Rendered(join(<<"\n", "\n">>, r.parts), b_after)))

\* renderer(block); a name that is no method of the class raises
\* AttributeError
render(name, self, b) ==
    CASE name = "heading"          -> render_heading(b)
      [] name = "paragraph"        -> render_paragraph(b)
      [] name = "list"             -> render_list(b)
      [] name = "description_list" -> render_description_list(b)
      [] name = "table"            -> render_table(b)
      [] name = "blockquote"       -> render_blockquote(self, b)
      [] name = "file"             -> render_file(b)
      [] name = "accordion"        -> render_accordion(self, b)
      [] OTHER                     -> RenderRaised(b)

\* convert, the loop over the blocks from the i-th on
convert_from(self, i, acc) ==
    IF i > Len(acc.blocks) \/ acc.raised THEN acc
    ELSE With(block_type_of(acc.blocks[i]), LAMBDA block_type :
         IF block_type # None /\ block_type[1] \in self
         THEN convert_from(self, i + 1, acc)
         ELSE With(lookup_renderer(block_type), LAMBDA renderer :
              IF renderer = None THEN convert_from(self, i + 1, acc)
              ELSE With(render(renderer[1], self, acc.blocks[i]), LAMBDA r :
                   convert_from(self, i + 1,
                       [raised |-> r.raised,
                        parts  |-> IF r.text # <<>> THEN Append(acc.parts, r.text)
                                   ELSE acc.parts,
                        blocks |-> [acc.blocks EXCEPT ![i] = r.block]]))))

\* MarkdownConverter.convert: whether it raised, the string it returned and
\* the list of block dicts after the call
convert(self, blocks) ==
    With(convert_from(self, 1, [raised |-> FALSE, parts |-> <<>>, blocks |-> blocks]),
         LAMBDA r :
        [raised |-> r.raised,
         text   |-> IF r.raised THEN <<>> ELSE join(<<"\n", "\n">>, r.parts),
         blocks |-> r.blocks])

(***************************************************************************)
(* The block lists a caller gives to convert(): blocks as the parser makes *)
(* them, blocks of kinds without a renderer, and block dicts that lack a   *)
(* field (convert() takes any list of dicts).                              *)
(***************************************************************************)
\* the longest block list
MaxBlocks == 2

bCard == [type |-> "card", title |-> <<"C">>, text |-> None, link_url |-> None,
          image_url |-> None, metadata |-> None]
bPara == [type |-> "paragraph", text |-> <<"a", " ", "b">>]
bTable == [type |-> "table", headers |-> << <<"A">>, <<"B">> >>,
           rows |-> << << <<"1">>, <<"2">> >>, << <<"3">> >> >>]

MdBlocks ==
    { [type |-> "heading", level |-> 2, text |-> <<"T">>],
      bPara,
      [type |-> "paragraph", text |-> <<>>],
      [type |-> "list", ordered |-> FALSE, items |-> << <<"x">>, <<"y">> >>],
      [type |-> "list", ordered |-> TRUE, items |-> << <<"x">>, <<"y">> >>],
      [type |-> "description_list",
       items |-> << << <<"t">>, <<"d">> >>, << <<"t">>, <<>> >>,
                    << <<>>, <<"d">> >>, << <<>>, <<>> >> >>],
      bTable,
      [type |-> "table", headers |-> << <<"A">> >>,
       rows |-> << << <<"1">>, <<"2">> >>, <<>> >>],
      [type |-> "table", headers |-> <<>>,
       rows |-> << << <<"1">> >>, << <<"2">>, <<"3">> >> >>],
      [type |-> "table", headers |-> << <<"A">> >>, rows |-> <<>>],
      [type |-> "table", headers |-> <<>>, rows |-> <<>>],
      [type |-> "blockquote", content |-> <<bPara, bCard, bTable>>],
      [type |-> "blockquote", content |-> <<bCard>>],
      [type |-> "blockquote", content |-> <<>>],
      [type |-> "file", title |-> <<"F">>, url |-> Some(<<"/f">>),
       reference_number |-> Some(<<"R1">>), document_type |-> None,
       language |-> None, file_size |-> Some(<<"1", " ", "MB">>),
       file_format |-> Some(<<"PDF">>), first_published |-> Some(<<"2026">>),
       last_updated |-> None],
      [type |-> "file", title |-> <<"F">>, url |-> None,
       reference_number |-> None, document_type |-> None, language |-> None,
       file_size |-> None, file_format |-> None, first_published |-> None,
       last_updated |-> None],
      [type |-> "accordion",
       items |-> << [title |-> <<"TA">>, content |-> <<bPara, bCard>>],
                    [title |-> <<>>, content |-> <<bTable>>],
                    [title |-> <<"TB">>, content |-> <<>>] >>],
      bCard,
      [type |-> "date", date |-> <<"2026-01-08">>, display_text |-> None],
      [type |-> "video", text |-> <<"v">>],
      [text |-> <<"untyped">>],
      \* dicts that lack a field their renderer reads
      [type |-> "heading", level |-> 2],
      [type |-> "file", url |-> None],
      [type |-> "table", headers |-> << <<"A">> >>],
      [type |-> "description_list", items |-> << << <<"t">> >> >>],
      [type |-> "blockquote",
       content |-> <<bTable, [type |-> "description_list",
                              items |-> << << <<"t">> >> >>]>>] }

\* the skip_types argument of the constructor: absent, the empty set, a set
SkipArgs == {None, Some({}), Some({"heading", "table", "card"})}

\* MarkdownConverter(skip_types), and a block list
InitMd ==
    /\ dom = El("main", <<"main-content-wrapper">>, <<>>, <<>>)
    /\ links = <<>>
    /\ processed_elements = {}
    /\ result = NoResult
    /\ root = None
    /\ consumed = {}
    /\ trace = <<>>
    /\ prior = [links |-> <<>>, processed |-> {}]
    /\ inst = NoInstances
    /\ call = NoCalls
    /\ md_blocks \in SeqsUpTo(MdBlocks, MaxBlocks)
    /\ skip_arg \in SkipArgs
    /\ skip_types = init_skip_types(skip_arg)
    /\ markdown = NoOutput
    /\ blocks_before = <<>>

\* converter.convert(blocks)
Convert ==
    \E r \in {convert(skip_types, md_blocks)} :
       /\ markdown' = [status |-> IF r.raised THEN "raised" ELSE "returned",
                       text |-> r.text]
       /\ md_blocks' = r.blocks
       /\ blocks_before' = md_blocks
       /\ UNCHANGED <<skip_types, skip_arg>>
       /\ UNCHANGED <<dom, links, processed_elements, result, root, consumed,
                      prior, trace, inst, call>>

NextMd == Convert

SpecMd == InitMd /\ [][NextMd]_vars

(***************************************************************************)
(* What the properties read: paths in document order, and the units of an  *)
(* output tree.  A unit is a block or an AccordionItem, with src (the      *)
(* element it was made from), anc (the src of every block it is nested     *)
(* in, outermost first) and b (the unit itself).                           *)
(***************************************************************************)
StrictlyUnder(q, p) == Len(p) < Len(q) /\ SubSeq(q, 1, Len(p)) = p

\* p comes before q in document order
RECURSIVE DocBefore(_, _)
DocBefore(p, q) ==
    IF p = <<>> THEN q # <<>>
    ELSE IF q = <<>> THEN FALSE
    ELSE IF Head(p) = Head(q) THEN DocBefore(Tail(p), Tail(q))
    ELSE Head(p) < Head(q)

RECURSIVE Units(_, _)
RECURSIVE UnitsOfItems(_, _)
Units(bs, anc) ==
    IF bs = <<>> THEN <<>>
    ELSE LET b == Head(bs)
             inside == Append(anc, b.src)
         IN <<[unit |-> "block", src |-> b.src, anc |-> anc, b |-> b]>>
            \o (CASE b.type = "blockquote" -> Units(b.content, inside)
                  [] b.type = "accordion"  -> UnitsOfItems(b.items, inside)
                  [] b.type = "listing"    -> Units(b.items, inside)
                  [] OTHER -> <<>>)
            \o Units(Tail(bs), anc)
UnitsOfItems(items, anc) ==
    IF items = <<>> THEN <<>>
    ELSE <<[unit |-> "item", src |-> Head(items).src, anc |-> anc, b |-> Head(items)]>>
         \o Units(Head(items).content, anc)
         \o UnitsOfItems(Tail(items), anc)

Range(f) == {f[i] : i \in DOMAIN f}

\* the units of the last result
Output == Units(result.blocks, <<>>)
OutputBlocks == {u \in Range(Output) : u.unit = "block"}
OutputItems == SelectSeq(Output, LAMBDA u : u.unit = "item")

HasReturned == result.status = "returned"

(***************************************************************************)
(* C1.  Idempotent consumption: when parse() has returned, every block of  *)
(* the output made from a descendant of an element that was handed to a    *)
(* component extractor lies inside the block made for that element; in     *)
(* no other place of the output, sibling or top level, is there one.       *)
(***************************************************************************)
C1_IdempotentConsumption ==
    HasReturned =>
        \A u \in OutputBlocks : \A c \in consumed :
            StrictlyUnder(u.src, c) => c \in Range(u.anc)

\* a consumed accordion nested in a consumed accordion: the inner items are
\* found again by the outer extractor, and the blocks of their bodies are in
\* the output, inside the inner accordion's block
C1_Witness ==
    /\ HasReturned
    /\ \E c1, c2 \in consumed :
          /\ StrictlyUnder(c2, c1)
          /\ \E u \in OutputBlocks : StrictlyUnder(u.src, c2) /\ c2 \in Range(u.anc)

(***************************************************************************)
(* C2.  No accordion-item element yields two AccordionItems in the output  *)
(* tree, all nesting levels counted together.                              *)
(***************************************************************************)
C2_ItemEmittedOnce ==
    HasReturned =>
        \A i, j \in DOMAIN OutputItems :
            i # j => OutputItems[i].src # OutputItems[j].src

(***************************************************************************)
(* C3.  Order preservation: the blocks list that parse() returns is in     *)
(* the document order of the elements its blocks were made from (a         *)
(* container's blocks at the container's place), and a block made from     *)
(* an element inside a blockquote or an accordion that has a block in the  *)
(* output is nested in that block, never at the enclosing level.           *)
(***************************************************************************)
C3_OrderPreservation ==
    HasReturned =>
        /\ \A i, j \in DOMAIN result.blocks :
              i < j => DocBefore(result.blocks[i].src, result.blocks[j].src)
        /\ \A u, q \in OutputBlocks :
              (q.b.type \in {"blockquote", "accordion"} /\ StrictlyUnder(u.src, q.src))
                  => q.src \in Range(u.anc)

\* blocks spliced from inside a generic container, followed by a sibling,
\* with a block nested in a blockquote or an accordion
C3_Witness ==
    /\ HasReturned
    /\ \E i, j \in DOMAIN result.blocks :
          i < j /\ Len(result.blocks[i].src) = 2 /\ Len(result.blocks[j].src) = 1
    /\ \E u \in OutputBlocks : u.anc # <<>>

(***************************************************************************)
(* C4.  No empty blocks: every block of the output, at every depth, has    *)
(* its primary field non-empty.                                            *)
(***************************************************************************)
NonEmptyBlock(b) ==
    CASE b.type \in {"heading", "paragraph"} -> b.text # <<>>
      [] b.type = "list" ->
            b.items # <<>> /\ \A i \in DOMAIN b.items : b.items[i] # <<>>
      [] b.type = "table" -> b.headers # <<>> \/ b.rows # <<>>
      [] b.type \in {"description_list", "listing", "accordion"} -> b.items # <<>>
      [] b.type = "blockquote" -> b.content # <<>>
      [] b.type \in {"banner", "card"} -> b.title # <<>>
      [] b.type = "alert" -> b.message # <<>>
      [] b.type = "date" -> b.date # <<>> \/ Truthy(b.display_text)
      [] b.type = "file" -> TRUE

C4_NoEmptyBlocks ==
    HasReturned =>
        \A u \in Range(Output) :
            IF u.unit = "item" THEN u.b.title # <<>> \/ u.b.content # <<>>
            ELSE NonEmptyBlock(u.b)

\* an element whose extractor found nothing stands beside one that gave a block
C4_Witness ==
    /\ HasReturned
    /\ result.blocks # <<>>
    /\ \E i \in DOMAIN dom.kids :
          /\ dom.kids[i].tag \in {"p", "blockquote", "div"}
          /\ get_text(dom.kids[i]) = <<>>
          /\ \A u \in Range(Output) : ~StrictlyUnder(u.src, <<i>>) /\ u.src # <<i>>

(***************************************************************************)
(* C5.  Every Link of the links list that parse() returns has a non-empty  *)
(* href that starts with neither '#' nor 'javascript:', and non-empty      *)
(* text.                                                                   *)
(***************************************************************************)
AcceptableHref(href) ==
    href # <<>> /\ ~startswith(href, "#") /\ ~startswith(href, "javascript:")

C5_LinksAcceptable ==
    HasReturned =>
        \A i \in DOMAIN result.links :
            AcceptableHref(result.links[i].href) /\ result.links[i].text # <<>>

(***************************************************************************)
(* C6.  The links list that parse() returns is in document order of the    *)
(* anchors: no Link comes after the Link of an anchor that follows its     *)
(* own anchor in the document.                                             *)
(***************************************************************************)
C6_LinksInDocumentOrder ==
    HasReturned =>
        \A i, j \in DOMAIN result.links :
            i < j => ~DocBefore(result.links[j].src, result.links[i].src)

(***************************************************************************)
(* C7.  Link filtering: an anchor met by the walk as a child (of main or   *)
(* of a plain container under main) gives no Link when its href is         *)
(* absent, empty, or starts with '#' or 'javascript:', and otherwise       *)
(* exactly one Link, with its href, and with its normalized text or, that  *)
(* text being empty, its href as the text.                                 *)
(***************************************************************************)
StandaloneAnchors ==
    {n \in Range(descendants(Node(<<>>, dom))) :
        /\ n.e.tag = "a"
        /\ \/ Len(n.p) = 1
           \/ /\ Len(n.p) = 2
              /\ dom.kids[n.p[1]].tag \in GENERIC_TAGS
              /\ dom.kids[n.p[1]].cls = <<>>}

LinksOf(p) == SelectSeq(result.links, LAMBDA l : l.src = p)

C7_LinkFiltering ==
    HasReturned =>
        \A n \in StandaloneAnchors :
            IF n.e.href = None \/ ~AcceptableHref(n.e.href[1])
            THEN LinksOf(n.p) = <<>>
            ELSE /\ Len(LinksOf(n.p)) = 1
                 /\ LinksOf(n.p)[1].href = n.e.href[1]
                 /\ LinksOf(n.p)[1].text =
                        IF get_text(n.e) = <<>> THEN n.e.href[1] ELSE get_text(n.e)

\* a page with a '#' anchor that gave nothing and an anchor with blank text
\* whose Link has the href as its text
C7_Witness ==
    /\ HasReturned
    /\ \E n, m \in StandaloneAnchors :
          /\ n.e.href # None /\ startswith(n.e.href[1], "#") /\ LinksOf(n.p) = <<>>
          /\ m.e.href # None /\ AcceptableHref(m.e.href[1]) /\ m.e.text # <<>>
          /\ get_text(m.e) = <<>>
          /\ Len(LinksOf(m.p)) = 1 /\ LinksOf(m.p)[1].text = m.e.href[1]

(***************************************************************************)
(* C8.  No exception escapes parse(): called on the main element, it       *)
(* returns, whatever happens in the extractor of one of the elements.      *)
(***************************************************************************)
C8_NoExceptionEscapes ==
    (root # None /\ result.status # "none") => HasReturned

(***************************************************************************)
(* C9.  parse() of an empty main element, or of None, returns exactly      *)
(* no blocks and no links.                                                 *)
(***************************************************************************)
C9_EmptyOrAbsentTree ==
    (result.status # "none" /\ (root = None \/ dom.kids = <<>>))
        => result = Returned(<<>>, <<>>)

(***************************************************************************)
(* C10.  No cross-call memory: what a call of parse() gives is what a      *)
(* freshly constructed parser gives for the same argument, whatever the    *)
(* instance recorded in earlier calls.                                     *)
(***************************************************************************)
C10_NoCrossCallMemory ==
    result.status # "none" => result = parse(dom, root, NewState).result

\* a call that returned blocks and links on an instance that began it with
\* links and visited elements of an earlier call
C10_Witness ==
    /\ HasReturned
    /\ prior.links # <<>> /\ prior.processed # {}
    /\ result.blocks # <<>> /\ result.links # <<>>

(***************************************************************************)
(* Concurrent calls.                                                       *)
(***************************************************************************)
\* what the call returns when it runs alone on a new instance
Alone == parse(dom, Some(<<>>), NewState).result

Done(t) == call[t].pc = "done"

\* C11: under every interleaving of the steps of two calls that run on two
\* distinct instances, each call returns the blocks and links (or raises)
\* as it does when it runs alone.
C11_SeparateInstancesSafe ==
    \A t \in Threads : Done(t) => call[t].result = Alone

\* both calls have returned links, and steps of one ran in the middle of
\* the other
C11_Witness ==
    /\ \A t \in Threads : Done(t) /\ call[t].overlapped
    /\ call[1].self # call[2].self
    /\ call[1].result.links # <<>>

\* C12: on one shared instance a call is only sure of its result when no
\* step of the other call ran between its reset and its return; with such
\* steps interleaved a call returns links, or omits blocks, unlike alone.
C12_SharedInstanceUnsafe ==
    \A t \in Threads :
        Done(t) /\ ~call[t].overlapped => call[t].result = Alone

\* a call on the shared instance whose links differ from those it returns
\* alone, and a call whose blocks do
C12_Witness ==
    /\ call[1].self = call[2].self
    /\ \E t \in Threads :
          /\ Done(t) /\ call[t].overlapped
          /\ call[t].result.status = "returned"
          /\ call[t].result.links # Alone.links
          /\ call[t].result.blocks # Alone.blocks

(***************************************************************************)
(* MarkdownConverter.convert                                               *)
(***************************************************************************)
Converted == markdown.status # "none"

\* a block list without the blocks of the kinds in S, at every depth
RECURSIVE Without(_, _)
RECURSIVE WithoutIn(_, _)
RECURSIVE WithoutInItems(_, _)
WithoutInItems(S, items) ==
    IF items = <<>> THEN <<>>
    ELSE <<IF "content" \in DOMAIN Head(items)
           THEN [Head(items) EXCEPT !.content = Without(S, @)]
           ELSE Head(items)>> \o WithoutInItems(S, Tail(items))
WithoutIn(S, b) ==
    IF block_type_of(b) = Some("blockquote") /\ "content" \in DOMAIN b
    THEN [b EXCEPT !.content = Without(S, @)]
    ELSE IF block_type_of(b) = Some("accordion") /\ "items" \in DOMAIN b
    THEN [b EXCEPT !.items = WithoutInItems(S, @)]
    ELSE b
Without(S, blocks) ==
    IF blocks = <<>> THEN <<>>
    ELSE (IF block_type_of(Head(blocks)) # None /\ block_type_of(Head(blocks))[1] \in S
          THEN <<>> ELSE <<WithoutIn(S, Head(blocks))>>)
         \o Without(S, Tail(blocks))

\* the kinds of the blocks of a list, at every depth
RECURSIVE KindsIn(_)
RECURSIVE KindsInItems(_)
KindsInItems(items) ==
    IF items = <<>> THEN {}
    ELSE KindsIn(Get(Head(items), "content", <<>>)) \cup KindsInItems(Tail(items))
KindsIn(blocks) ==
    IF blocks = <<>> THEN {}
    ELSE (IF block_type_of(Head(blocks)) = None THEN {} ELSE {Head(blocks).type})
         \cup (IF block_type_of(Head(blocks)) = Some("blockquote")
               THEN KindsIn(Get(Head(blocks), "content", <<>>))
               ELSE IF block_type_of(Head(blocks)) = Some("accordion")
               THEN KindsInItems(Get(Head(blocks), "items", <<>>))
               ELSE {})
         \cup KindsIn(Tail(blocks))

\* C13: Skip-set honored.  Whatever skip-set the converter was made with
\* (the default when none is given, the given set otherwise, the empty set
\* included), convert() gives for a block list what it gives for the list
\* with every block of a skipped kind taken out, at the top level, in a
\* blockquote's content and in an accordion item's content; and a list of
\* one card block gives '' under the default and under the empty skip-set.
C13_SkipSetHonored ==
    /\ skip_arg = None => skip_types = SKIP_TYPES
    /\ skip_arg # None => skip_types = skip_arg[1]
    /\ Converted =>
         \E r \in {convert(skip_types, Without(skip_types, blocks_before))} :
            /\ (markdown.status = "raised") = r.raised
            /\ markdown.text = r.text
    /\ (Converted /\ blocks_before = <<bCard>> /\ skip_types \in {SKIP_TYPES, {}})
         => markdown = [status |-> "returned", text |-> <<>>]

\* a card in a blockquote and a table are skipped under an override, and the
\* rest of the list is rendered
C13_Witness ==
    /\ Converted
    /\ skip_arg = Some({"heading", "table", "card"})
    /\ Len(blocks_before) = 2
    /\ block_type_of(blocks_before[1]) = Some("blockquote")
    /\ {"card", "table"} \subseteq KindsIn(blocks_before[1].content)
    /\ block_type_of(blocks_before[2]) = Some("table")
    /\ markdown = [status |-> "returned",
                   text |-> <<">", " ", "a", " ", "b">>]

\* the one-card list under the empty skip-set
C13_WitnessEmpty ==
    /\ Converted /\ skip_arg = Some({}) /\ skip_types = {}
    /\ blocks_before = <<bCard>> /\ markdown.text = <<>>

\* a top-level block whose kind is not skipped and has no _render_ method
NoRenderer(S, b) ==
    /\ ~(block_type_of(b) # None /\ block_type_of(b)[1] \in S)
    /\ ~(block_type_of(b) # None /\ block_type_of(b)[1] \in RENDERERS)

\* a block list without its top-level blocks that have no renderer
WithoutUnrendered(S, blocks) == SelectSeq(blocks, LAMBDA b : ~NoRenderer(S, b))

\* C14: a block whose kind has no renderer (banner, listing, card, alert or
\* date when not skipped, an unknown kind, a block without type) is left out
\* silently: convert() gives exactly what it gives for the remaining blocks,
\* and a list of such blocks alone gives '' without raising.
C14_UnrenderedOmitted ==
    Converted =>
       /\ \E r \in {convert(skip_types, WithoutUnrendered(skip_types, blocks_before))} :
             /\ (markdown.status = "raised") = r.raised
             /\ markdown.text = r.text
       /\ (\A i \in DOMAIN blocks_before : NoRenderer(skip_types, blocks_before[i]))
             => markdown = [status |-> "returned", text |-> <<>>]

\* a card that is not skipped, next to a paragraph that is rendered
C14_Witness ==
    /\ Converted
    /\ skip_types = {}
    /\ blocks_before = <<bCard, bPara>>
    /\ markdown = [status |-> "returned", text |-> <<"a", " ", "b">>]

\* a block of an unknown kind and a block without type, alone in the list
C14_WitnessUnknown ==
    /\ Converted
    /\ Len(blocks_before) = 2
    /\ block_type_of(blocks_before[1]) = Some("video")
    /\ block_type_of(blocks_before[2]) = None
    /\ markdown = [status |-> "returned", text |-> <<>>]

\* a block of a renderable kind that lacks a field its renderer reads: a
\* heading without text, a file without title, a table without rows, a
\* description list with an item that is not a pair
Malformed(b) ==
    \/ block_type_of(b) = Some("heading") /\ "text" \notin DOMAIN b
    \/ block_type_of(b) = Some("file") /\ "title" \notin DOMAIN b
    \/ block_type_of(b) = Some("table") /\ "rows" \notin DOMAIN b
    \/ /\ block_type_of(b) = Some("description_list")
       /\ \E i \in DOMAIN Get(b, "items", <<>>) : Len(b.items[i]) # 2

\* C15: rendering a malformed block never raises and leaves that block out:
\* convert() returns, and gives what it gives for the list without the
\* malformed blocks.
C15_MalformedOmitted ==
    (Converted /\ \E i \in DOMAIN blocks_before : Malformed(blocks_before[i]))
    => /\ markdown.status = "returned"
       /\ markdown.text =
            convert(skip_types, SelectSeq(blocks_before, LAMBDA b : ~Malformed(b))).text

\* convert([{'type': 'heading', 'level': 2}]) returns '## '
C15_HeadingWithoutText ==
    /\ Converted
    /\ skip_types = SKIP_TYPES
    /\ blocks_before = <<[type |-> "heading", level |-> 2]>>
    /\ markdown = [status |-> "returned", text |-> <<"#", "#", " ">>]

\* convert([{'type': 'description_list', 'items': [('t',)]}]) raises
C15_ItemNotAPairRaises ==
    /\ Converted
    /\ skip_types = SKIP_TYPES
    /\ blocks_before = <<[type |-> "description_list", items |-> << << <<"t">> >> >>]>>
    /\ markdown.status = "raised"

\* convert([{'type': 'file', 'url': None}]) returns '**Untitled**'
C15_FileWithoutTitle ==
    /\ Converted
    /\ skip_types = SKIP_TYPES
    /\ blocks_before = <<[type |-> "file", url |-> None]>>
    /\ markdown = [status |-> "returned", text |-> <<"**", "Untitled", "**">>]

\* the first table block of the list before the call, and the lines of the
\* output when that table is the only block rendered
TablesBefore == SelectSeq(blocks_before, LAMBDA b : block_type_of(b) = Some("table"))
TableLines == split_lines(markdown.text)

\* a row with '' appended up to n cells
PaddedTo(row, n) == row \o [i \in 1..(n - Len(row)) |-> <<>>]

\* C16: a table with headers renders as the header row, a separator row
\* with one '---' per header column, then one line per data row in order,
\* each row shorter than the header row padded with empty cells up to the
\* header length; a table without headers renders as its rows alone, not
\* padded.  (Stated of a call whose list holds one table and is rendered.)
C16_TableRendering ==
    (Converted /\ Len(blocks_before) = 1 /\ Len(TablesBefore) = 1
       /\ "table" \notin skip_types)
    => \E t \in {TablesBefore[1]} :
       \E headers \in {Get(t, "headers", <<>>)} :
       \E rows \in {Get(t, "rows", <<>>)} :
          /\ markdown.status = "returned"
          /\ (headers = <<>> /\ rows = <<>>) => markdown.text = <<>>
          /\ (headers # <<>>) =>
               /\ Len(TableLines) = 2 + Len(rows)
               /\ TableLines[1] = table_row(headers)
               /\ TableLines[2] = table_row([i \in 1..Len(headers) |-> <<"---">>])
               /\ \A i \in DOMAIN rows :
                    TableLines[2 + i] =
                       table_row(IF Len(rows[i]) < Len(headers)
                                 THEN PaddedTo(rows[i], Len(headers)) ELSE rows[i])
          /\ (headers = <<>> /\ rows # <<>>) =>
               /\ Len(TableLines) = Len(rows)
               /\ \A i \in DOMAIN rows : TableLines[i] = table_row(rows[i])

\* headers [A, B], rows [[1, 2], [3]]: the second data row is | 3 |  |
C16_Witness ==
    /\ Converted
    /\ blocks_before = <<bTable>>
    /\ "table" \notin skip_types
    /\ TableLines = << <<"|", " ", "A", " ", "|", " ", "B", " ", "|">>,
                       <<"|", " ", "---", " ", "|", " ", "---", " ", "|">>,
                       <<"|", " ", "1", " ", "|", " ", "2", " ", "|">>,
                       <<"|", " ", "3", " ", "|", " ", " ", "|">> >>

\* no headers: rows of one and of two cells, as they are
C16_WitnessNoHeaders ==
    /\ Converted
    /\ Len(blocks_before) = 1 /\ Len(TablesBefore) = 1
    /\ Get(blocks_before[1], "headers", <<>>) = <<>>
    /\ TableLines = << <<"|", " ", "1", " ", "|">>,
                       <<"|", " ", "2", " ", "|", " ", "3", " ", "|">> >>

\* C17: convert() leaves every block of its input list unchanged (every
\* field, the rows of table blocks included, has after the call the value it
\* had before), and the converter's skip-set is what it was made with.
C17_BlocksUnchanged ==
    Converted => /\ md_blocks = blocks_before
                 /\ skip_types = init_skip_types(skip_arg)

\* after convert([table with headers [A, B] and rows [[1, 2], [3]]]) the
\* second row of the caller's block is [3, '']
C17_RowPadded ==
    /\ Converted
    /\ blocks_before = <<bTable>>
    /\ md_blocks = <<[bTable EXCEPT !.rows[2] = << <<"3">>, <<>> >>]>>

\* the same inside a blockquote's content
C17_NestedRowPadded ==
    /\ Converted
    /\ Len(blocks_before) = 1
    /\ block_type_of(blocks_before[1]) = Some("blockquote")
    /\ blocks_before[1].content = <<bPara, bCard, bTable>>
    /\ md_blocks[1].content[3].rows[2] = << <<"3">>, <<>> >>

\* the converter's only field does not change
C17_SkipTypesKept == [][skip_types' = skip_types]_vars

(***************************************************************************)
(* The sample page                                                         *)
(***************************************************************************)
\* a block or link without the element it was made from
Plain(x) == [k \in DOMAIN x \ {"src"} |-> x[k]]
PlainAll(xs) == [i \in DOMAIN xs |-> Plain(xs[i])]

\* C18: parsing the main element of the sample page (h1 'Test Page', a
\* paragraph with one link, h2 'Section', a ul of two items) returns exactly
\* the blocks Heading(1, 'Test Page'), Paragraph('This is a test link
\* paragraph.'), Heading(2, 'Section'), List(unordered, ['Item 1',
\* 'Item 2']) and exactly the link (text 'test link', href '/link1').
C18_Scenario ==
    (dom = ScenarioPage /\ root = Some(<<>>) /\ result.status # "none")
    => /\ result.status = "returned"
       /\ PlainAll(result.blocks) =
            << [type |-> "heading", level |-> 1, text |-> <<"Test", " ", "Page">>],
               [type |-> "paragraph",
                text |-> <<"This", " ", "is", " ", "a", " ", "test", " ", "link",
                           " ", "paragraph.">>],
               [type |-> "heading", level |-> 2, text |-> <<"Section">>],
               [type |-> "list", ordered |-> FALSE,
                items |-> << <<"Item", " ", "1">>, <<"Item", " ", "2">> >>] >>
       /\ PlainAll(result.links) =
            << [text |-> <<"test", " ", "link">>, href |-> <<"/link1">>] >>

\* the sample page has been parsed
C18_Witness ==
    /\ dom = ScenarioPage /\ root = Some(<<>>)
    /\ result.status = "returned"
    /\ Len(result.blocks) = 4 /\ Len(result.links) = 1

(***************************************************************************)
(* Dispatch                                                                *)
(***************************************************************************)
Parsed == result.status # "none" /\ root # None

\* the element an iteration of the loop reached
Reached(k) == ElementAt(dom, trace[k].p)

\* the tag or a class of the element is one that is skipped
DenyTags == {"script", "style", "noscript", "svg", "button", "form", "input", "nav"}
DenyClasses == {"bcl-inpage-navigation", "breadcrumb", "dropdown-menu"}
HardSkipped(k) ==
    \/ Reached(k).tag \in DenyTags
    \/ ClassSet(Reached(k)) \cap DenyClasses # {}
    \/ trace[k].visited

\* the catalog in its order, and the extractor of each entry
Catalog == <<"bcl-file", "accordion", "bcl-content-banner", "bcl-listing",
             "bcl-date-block", "listing-item", "alert">>
ExtractorOf(c) ==
    CASE c = "bcl-file" -> "_parse_file"
      [] c = "accordion" -> "_parse_accordion"
      [] c = "bcl-content-banner" -> "_parse_banner"
      [] c = "bcl-listing" -> "_parse_listing"
      [] c = "bcl-date-block" -> "_parse_date_block"
      [] c = "listing-item" -> "_parse_card"
      [] c = "alert" -> "_parse_alert"
CatalogClassesOf(e) == {i \in DOMAIN Catalog : Catalog[i] \in ClassSet(e)}
Earliest(e) == Catalog[CHOOSE i \in CatalogClassesOf(e) :
                          \A j \in CatalogClassesOf(e) : i <= j]

\* C19: an element reached by the walk and not hard-skipped whose classes
\* hold one or more classes of the catalog is handed to exactly one
\* extractor, the one of the earliest matching entry of the catalog, and to
\* no handler of its tag.
C19_ComponentPrecedence ==
    Parsed =>
      \A k \in DOMAIN trace :
         (~HardSkipped(k) /\ CatalogClassesOf(Reached(k)) # {})
         => /\ trace[k].handler = ExtractorOf(Earliest(Reached(k)))
            /\ \A j \in DOMAIN trace :
                  (trace[j].p = trace[k].p /\ trace[j].handler # "skip") => j = k

\* a p of classes alert and bcl-file went to _parse_file, which made a block
C19_Witness ==
    /\ Parsed
    /\ \E k \in DOMAIN trace :
         /\ Reached(k).tag = "p"
         /\ Reached(k).cls = <<"alert", "bcl-file">>
         /\ trace[k].handler = "_parse_file"
         /\ trace[k].after.blocks = trace[k].before.blocks + 1
         /\ \E i \in DOMAIN result.blocks :
               result.blocks[i].type = "file" /\ result.blocks[i].src = trace[k].p

C20_WitnessVisited ==
    /\ Parsed
    /\ \E k \in DOMAIN trace :
         /\ trace[k].visited
         /\ Reached(k).tag \notin DenyTags
         /\ ClassSet(Reached(k)) \cap DenyClasses = {}
         /\ trace[k].handler = "skip"

\* C21: an element reached by the walk and not hard-skipped whose classes
\* hold the token listing-item--highlight (and no class of an earlier entry
\* of the catalog) is handed to the Card extractor by the component match.
C21_HighlightMatchesCard ==
    Parsed =>
      \A k \in DOMAIN trace :
         (/\ ~HardSkipped(k)
          /\ "listing-item--highlight" \in ClassSet(Reached(k))
          /\ \A i \in CatalogClassesOf(Reached(k)) : i >= 6)
         => trace[k].handler = "_parse_card"

\* <article class="listing-item--highlight"> is walked as a container: its
\* title comes out as a heading block and no card is made
C21_HighlightWalked ==
    /\ Parsed
    /\ \E k \in DOMAIN trace :
         /\ Reached(k).cls = <<"listing-item--highlight">>
         /\ trace[k].handler = "_parse_children"
         /\ \E i \in DOMAIN result.blocks :
               /\ result.blocks[i].type = "heading"
               /\ StrictlyUnder(result.blocks[i].src, trace[k].p)
    /\ \A i \in DOMAIN result.blocks : result.blocks[i].type # "card"

(***************************************************************************)
(* The extractors, as the walk called them                                 *)
(***************************************************************************)
\* the element of the k-th iteration as a node, and the iterations in which
\* an extractor was called and returned
NodeAt(k) == Node(trace[k].p, Reached(k))
Called(handler) ==
    {k \in DOMAIN trace : trace[k].handler = handler /\ trace[k].ret.returned}

\* an element and everything below it
SubtreePaths(n) == {n.p} \cup {descendants(n)[i].p : i \in DOMAIN descendants(n)}

\* the links an extractor recorded
NewLinks(k) == SubSeq(trace[k].ret.links, trace[k].before.links + 1,
                      Len(trace[k].ret.links))

\* the cards the Card extractor makes of the elements, in their order
RECURSIVE CardsOf(_)
CardsOf(els) ==
    IF els = <<>> THEN <<>>
    ELSE parse_card(Head(els), NewState).blk \o CardsOf(Tail(els))

\* the descendants of a listing whose class contains listing-item or is card
ItemEls(k) == find_all(NodeAt(k), ByListingItem)

\* C22: the Listing extractor runs every descendant whose class contains
\* 'listing-item' or equals 'card' through the Card extractor in document
\* order and marks each of them, with its subtree, visited whether or not a
\* card came back; the items are the cards produced, and it returns None
\* exactly when there is none.
C22_ListingExtractor ==
    Parsed =>
      \A k \in Called("_parse_listing") :
         /\ \A i \in DOMAIN ItemEls(k) :
               SubtreePaths(ItemEls(k)[i]) \subseteq trace[k].ret.processed
         /\ (trace[k].ret.blk = <<>>) <=> (CardsOf(ItemEls(k)) = <<>>)
         /\ trace[k].ret.blk # <<>> => trace[k].ret.blk[1].items = CardsOf(ItemEls(k))

\* the items and the None of the Listing extractor alone
C22_ItemsAreTheCards ==
    Parsed =>
      \A k \in Called("_parse_listing") :
         /\ (trace[k].ret.blk = <<>>) <=> (CardsOf(ItemEls(k)) = <<>>)
         /\ trace[k].ret.blk # <<>> => trace[k].ret.blk[1].items = CardsOf(ItemEls(k))

\* a listing of a card with a title and a card without: when _parse_listing
\* returns, the second is not in the visited set
C22_FailedCardNotMarked ==
    /\ Parsed
    /\ \E k \in Called("_parse_listing") :
         /\ Len(ItemEls(k)) = 2
         /\ Len(trace[k].ret.blk[1].items) = 1
         /\ ItemEls(k)[1].p \in trace[k].ret.processed
         /\ ItemEls(k)[2].p \notin trace[k].ret.processed
         /\ ItemEls(k)[2].p \in trace[k].after.processed

\* the th cells of the thead, the rows of the body, the cells of a row
TheadCells(n) ==
    IF find(n, ByTag("thead")) = <<>> THEN <<>>
    ELSE find_all(find(n, ByTag("thead"))[1], ByTag("th"))
BodyRows(n) ==
    SelectSeq(children(OrElse(find(n, ByTag("tbody")), <<n>>)[1]),
              LAMBDA x : HasTag(x, "tr"))
Cells(tr) == find_all(tr, ByTags({"td", "th"}))
AllTh(tr) == \A i \in DOMAIN Cells(tr) : Cells(tr)[i].e.tag = "th"

\* the texts of the cells of the rows that have cells
RECURSIVE DataRows(_)
DataRows(trs) ==
    IF trs = <<>> THEN <<>>
    ELSE (IF Cells(Head(trs)) = <<>> THEN <<>> ELSE <<cell_texts(Cells(Head(trs)))>>)
         \o DataRows(Tail(trs))

\* headers and rows by the header rule: the th cells of the thead if there
\* are any; otherwise the first body row if all its cells are th, and then
\* it is no data row; every other row is a data row
ByHeaderRule(n) ==
    IF TheadCells(n) # <<>>
    THEN [headers |-> cell_texts(TheadCells(n)), rows |-> DataRows(BodyRows(n))]
    ELSE IF BodyRows(n) # <<>> /\ AllTh(BodyRows(n)[1])
    THEN [headers |-> cell_texts(Cells(BodyRows(n)[1])),
          rows |-> DataRows(Tail(BodyRows(n)))]
    ELSE [headers |-> <<>>, rows |-> DataRows(BodyRows(n))]

\* C23: the Table extractor takes the headers from the thead's th cells
\* when present; otherwise only the first body row can become the header
\* row, when all its cells are th, and it is then no data row; every
\* remaining direct-child row is a data row of cell texts in document order;
\* None is returned exactly when headers and rows are both empty.
C23_TableHeaderRule ==
    Parsed =>
      \A k \in Called("_parse_table") :
         \E want \in {ByHeaderRule(NodeAt(k))} :
            /\ (trace[k].ret.blk = <<>>) <=> (want.headers = <<>> /\ want.rows = <<>>)
            /\ trace[k].ret.blk # <<>> =>
                 /\ trace[k].ret.blk[1].headers = want.headers
                 /\ trace[k].ret.blk[1].rows = want.rows

\* <table><tr><td>1</td></tr><tr><th>H</th></tr></table>: the second row
\* is taken as the header row
C23_LaterRowBecomesHeader ==
    /\ Parsed
    /\ \E k \in Called("_parse_table") :
         /\ Len(BodyRows(NodeAt(k))) = 2
         /\ ~AllTh(BodyRows(NodeAt(k))[1])
         /\ trace[k].ret.blk[1].headers = << <<"H">> >>
         /\ trace[k].ret.blk[1].rows = << << <<"1">> >> >>

\* None exactly when there are neither headers nor rows
C23_NoneWhenEmpty ==
    Parsed =>
      \A k \in Called("_parse_table") :
         trace[k].ret.blk # <<>> =>
            trace[k].ret.blk[1].headers # <<>> \/ trace[k].ret.blk[1].rows # <<>>

\* the dt and dd children of a dl
TermsAndDescriptions(n) == SelectSeq(children(n), LAMBDA x : x.e.tag \in {"dt", "dd"})

\* the pairs of a sequence of dt and dd, pending being the text of the dt
\* that no dd has closed yet
RECURSIVE Pairing(_, _)
Pairing(cs, pending) ==
    IF cs = <<>>
    THEN (IF pending = None THEN <<>> ELSE << <<pending[1], <<>> >> >>)
    ELSE IF Head(cs).e.tag = "dt"
    THEN Pairing(Tail(cs), Some(get_text(Head(cs).e)))
    ELSE << <<IF pending = None THEN <<>> ELSE pending[1], get_text(Head(cs).e)>> >>
         \o Pairing(Tail(cs), None)

\* C24: the Description-list extractor pairs the dt and dd children in
\* order: each dd gives one pair whose term is the pending dt's text, or ''
\* when none is pending, and clears the pending term; a dt pending at the
\* end gives a last pair [term, '']; so there are as many pairs as dd, plus
\* one if the last dt/dd child is a dt; None is returned exactly when there
\* is no dt or dd child.
C24_DescriptionListPairing ==
    Parsed =>
      \A k \in Called("_parse_description_list") :
         \E cs \in {TermsAndDescriptions(NodeAt(k))} :
            /\ (trace[k].ret.blk = <<>>) <=> (cs = <<>>)
            /\ trace[k].ret.blk # <<>> =>
                 /\ trace[k].ret.blk[1].items = Pairing(cs, None)
                 /\ Len(trace[k].ret.blk[1].items) =
                      Cardinality({i \in DOMAIN cs : cs[i].e.tag = "dd"})
                      + (IF cs[Len(cs)].e.tag = "dt" THEN 1 ELSE 0)

\* dd, dt, dt, dd, dt gives ['', d0], [t2, d2 e], [t3, '']
C24_Witness ==
    /\ Parsed
    /\ \E k \in Called("_parse_description_list") :
         /\ Len(TermsAndDescriptions(NodeAt(k))) = 5
         /\ trace[k].ret.blk[1].items =
              << << <<>>, <<"d0">> >>, << <<"t2">>, <<"d2", " ", "e">> >>,
                 << <<"t3">>, <<>> >> >>

\* the blocks of the walk of the children of the k-th iteration's element,
\* begun with the visited set of that moment
WalkOf(k) ==
    parse_children(NodeAt(k), 1,
                   [NewState EXCEPT !.processed = trace[k].before.processed]).blocks

\* C25: the content of a Blockquote block is what the recursive walk of
\* the children gives when that is not empty; only when the walk gives no
\* block is it one Paragraph holding the blockquote's normalized text; None
\* is returned exactly when the walk gives nothing and the text is empty;
\* in every case the blockquote's subtree is in the visited set afterwards.
C25_BlockquoteContent ==
    Parsed =>
      \A k \in Called("_parse_blockquote") :
         \E walked \in {WalkOf(k)} :
         \E text \in {get_text(Reached(k))} :
            /\ (trace[k].ret.blk = <<>>) <=> (walked = <<>> /\ text = <<>>)
            /\ (walked # <<>>) => trace[k].ret.blk[1].content = walked
            /\ (walked = <<>> /\ text # <<>>) =>
                 PlainAll(trace[k].ret.blk[1].content) =
                    <<[type |-> "paragraph", text |-> text]>>
            /\ SubtreePaths(NodeAt(k)) \subseteq trace[k].after.processed

\* a blockquote of a paragraph and a heading gave the two blocks of the
\* walk, and one of text alone gave a paragraph
C25_Witness ==
    /\ Parsed
    /\ \E k \in Called("_parse_blockquote") :
         /\ Len(WalkOf(k)) = 2
         /\ trace[k].ret.blk[1].content = WalkOf(k)
         /\ get_text(Reached(k)) # <<>>
    /\ \E k \in Called("_parse_blockquote") :
         /\ WalkOf(k) = <<>> /\ trace[k].ret.blk # <<>>
         /\ trace[k].ret.blk[1].content[1].type = "paragraph"

\* a blockquote of an empty paragraph gave None and is in the visited set
C25_WitnessNone ==
    /\ Parsed
    /\ \E k \in Called("_parse_blockquote") :
         /\ trace[k].ret.blk = <<>>
         /\ Reached(k).kids # <<>>
         /\ SubtreePaths(NodeAt(k)) \subseteq trace[k].after.processed

\* the anchors with an href attribute in the element, and the title
FileAnchors(k) == find_all(NodeAt(k), ByHref)
FileTitle(k) ==
    IF find(NodeAt(k), ByClass("file-title")) = <<>> THEN <<>>
    ELSE get_text(find(NodeAt(k), ByClass("file-title"))[1].e)

\* C26: when the file element holds an anchor with an href, the File
\* extractor takes the first one's href as the url and records exactly one
\* Link, of that href, with the title as text when the title is not empty
\* and the anchor's text otherwise; without such an anchor it records no
\* Link; it returns None exactly when neither a title nor a url was found.
C26_FileExtractor ==
    Parsed =>
      \A k \in Called("_parse_file") :
         /\ FileAnchors(k) = <<>> =>
               /\ NewLinks(k) = <<>>
               /\ trace[k].ret.blk # <<>> => trace[k].ret.blk[1].url = None
         /\ FileAnchors(k) # <<>> =>
               /\ NewLinks(k) =
                    <<Link(IF FileTitle(k) # <<>> THEN FileTitle(k)
                           ELSE get_text(FileAnchors(k)[1].e),
                           FileAnchors(k)[1].e.href[1], FileAnchors(k)[1].p)>>
               /\ trace[k].ret.blk # <<>> =>
                    trace[k].ret.blk[1].url = FileAnchors(k)[1].e.href
         /\ (trace[k].ret.blk = <<>>) <=>
               (FileTitle(k) = <<>>
                  /\ (FileAnchors(k) = <<>> \/ FileAnchors(k)[1].e.href[1] = <<>>))

\* a file with a title and a link, and a file without title: the Link's text
\* is the title in the first and the anchor's text in the second
C26_Witness ==
    /\ Parsed
    /\ \E k \in Called("_parse_file") :
         /\ FileTitle(k) = <<"F">>
         /\ NewLinks(k) # <<>> /\ NewLinks(k)[1].text = <<"F">>
         /\ trace[k].ret.blk[1].url = Some(NewLinks(k)[1].href)
    /\ \E k \in Called("_parse_file") :
         /\ FileTitle(k) = <<>>
         /\ NewLinks(k) # <<>> /\ NewLinks(k)[1].text = <<"l">>

(***************************************************************************)
(* Tags the dispatch does not know                                         *)
(***************************************************************************)
StructuralTags == {"h1", "h2", "h3", "h4", "h5", "h6", "p", "table", "ul", "ol",
                   "dl", "blockquote", "a", "div", "section", "article", "main",
                   "aside", "header", "footer", "span"}

\* the iterations that reached a child that is not hard-skipped, matches no
\* component and has a tag outside the structural set
Unrecognized ==
    {k \in DOMAIN trace : /\ ~HardSkipped(k)
                          /\ CatalogClassesOf(Reached(k)) = {}
                          /\ Reached(k).tag \notin StructuralTags}

\* the page with the elements at the paths ps turned into div
RECURSIVE AsDiv(_, _, _)
AsDiv(e, p, ps) ==
    [e EXCEPT !.tag = IF p \in ps THEN "div" ELSE @,
              !.kids = [i \in DOMAIN e.kids |-> AsDiv(e.kids[i], Append(p, i), ps)]]

\* C27: a child that is not hard-skipped, matches no component and has a
\* tag outside the structural set is recursed into, and the blocks and
\* links of the parse are exactly those of the same page with div in place
\* of that tag; the element itself is not marked visited.
C27_UnrecognizedSalvaged ==
    Parsed =>
      /\ \A k \in Unrecognized :
            /\ trace[k].handler = "_parse_children"
            /\ trace[k].p \notin trace[k].after.processed
      /\ Unrecognized # {} =>
            result = parse(AsDiv(dom, <<>>, {trace[k].p : k \in Unrecognized}),
                           root, NewState).result

\* a figure of a heading and a paragraph with a link gave both blocks and
\* the link
C27_Witness ==
    /\ Parsed
    /\ \E k \in Unrecognized :
         /\ Reached(k).tag = "figure"
         /\ trace[k].after.blocks = trace[k].before.blocks + 2
         /\ trace[k].after.links = trace[k].before.links + 1
         /\ \E i \in DOMAIN result.blocks :
               StrictlyUnder(result.blocks[i].src, trace[k].p)

(***************************************************************************)
(* Links                                                                   *)
(***************************************************************************)
\* an href that is not empty and starts with neither '#' nor 'javascript:'
Acceptable(href) ==
    href # <<>> /\ ~startswith(href, "#") /\ ~startswith(href, "javascript:")

\* the anchors below the element with an acceptable href
AcceptableAnchors(k) ==
    SelectSeq(find_all(NodeAt(k), ByHref), LAMBDA a : Acceptable(a.e.href[1]))

\* C28: for every heading or paragraph handled by the tag dispatch, every
\* descendant anchor with an acceptable href is recorded as a Link and no
\* block is made for it, also when the element's normalized text is empty
\* and no block is emitted: a paragraph holding only an anchor of href '/x'
\* without text gives the Link (text '/x', href '/x').
C28_LinksOfHeadingsAndParagraphs ==
    Parsed =>
      \A k \in Called("_parse_heading") \cup Called("_parse_paragraph") :
         /\ \A i \in DOMAIN AcceptableAnchors(k) :
               \E j \in DOMAIN NewLinks(k) :
                  /\ NewLinks(k)[j].src = AcceptableAnchors(k)[i].p
                  /\ NewLinks(k)[j].href = AcceptableAnchors(k)[i].e.href[1]
         /\ trace[k].after.blocks <= trace[k].before.blocks + 1

\* <p><a href="/x"></a></p>: no block and no Link
C28_LinkOfEmptyParagraphLost ==
    /\ Parsed
    /\ \E k \in Called("_parse_paragraph") :
         /\ Len(AcceptableAnchors(k)) = 1
         /\ AcceptableAnchors(k)[1].e.href = Some(<<"/x">>)
         /\ get_text(Reached(k)) = <<>>
         /\ trace[k].ret.blk = <<>>
         /\ NewLinks(k) = <<>>
    /\ \A i \in DOMAIN result.links : result.links[i].text # <<"/x">>

\* the same when the element has a text
C28_LinksWhenTextPresent ==
    Parsed =>
      \A k \in Called("_parse_heading") \cup Called("_parse_paragraph") :
         get_text(Reached(k)) # <<>> =>
            /\ \A i \in DOMAIN AcceptableAnchors(k) :
                  \E j \in DOMAIN NewLinks(k) :
                     NewLinks(k)[j].src = AcceptableAnchors(k)[i].p
            /\ trace[k].after.blocks = trace[k].before.blocks + 1

\* C29: each anchor of the parsed tree gives at most one Link of the links
\* list of one parse() call: two entries of the list never come from the
\* same anchor.
C29_OneLinkPerAnchor ==
    Parsed =>
      \A i, j \in DOMAIN result.links :
         result.links[i].src = result.links[j].src => i = j

\* the anchor of a list item nested in a list item is recorded by the outer
\* item and again by the inner one
C29_NestedItemLinkTwice ==
    /\ Parsed
    /\ \E k \in Called("_parse_list") :
         \E i, j \in DOMAIN NewLinks(k) :
            /\ i < j
            /\ NewLinks(k)[i] = NewLinks(k)[j]
            /\ NewLinks(k)[i].href = <<"/y">>

\* the first anchor of a banner is recorded with the title's links and again
\* as the banner's link
C29_BannerLinkTwice ==
    /\ Parsed
    /\ \E k \in Called("_parse_banner") :
         \E i, j \in DOMAIN NewLinks(k) :
            i < j /\ NewLinks(k)[i].src = NewLinks(k)[j].src

(***************************************************************************)
(* MarkdownConverter._render_blockquote                                    *)
(***************************************************************************)
\* the call converted a list of one blockquote block that is not skipped
OneBlockquote ==
    /\ Converted
    /\ Len(blocks_before) = 1
    /\ block_type_of(blocks_before[1]) = Some("blockquote")
    /\ "blockquote" \notin skip_types

\* the rendering of the blockquote's content with the same skip-set
InnerMd == convert(skip_types, Get(blocks_before[1], "content", <<>>))

\* C30: the fragment of a Blockquote is the rendering of its content, with
\* the same skip-set, every line prefixed by '> '; when the content renders
\* to '' (no content, or every nested block skipped or without a renderer)
\* the fragment is empty and the blockquote adds nothing to the output of
\* convert(), not even a line '> '.
C30_BlockquoteRendering ==
    (OneBlockquote /\ ~InnerMd.raised)
    => /\ markdown.status = "returned"
       /\ InnerMd.text = <<>> => markdown.text = <<>>
       /\ InnerMd.text # <<>> =>
            markdown.text = join(<<"\n">>, quote_lines(split_lines(InnerMd.text)))

\* convert([{'type': 'blockquote', 'content': [card]}]) returns '> '
C30_BareQuoteLine ==
    /\ OneBlockquote
    /\ skip_types = SKIP_TYPES
    /\ blocks_before[1].content = <<bCard>>
    /\ InnerMd.text = <<>>
    /\ markdown = [status |-> "returned", text |-> <<">", " ">>]

\* the prefix on every line when the content renders to something
C30_LinesPrefixed ==
    (OneBlockquote /\ ~InnerMd.raised /\ InnerMd.text # <<>>)
    => markdown.text = join(<<"\n">>, quote_lines(split_lines(InnerMd.text)))

====
